---- MODULE Spec2Model ----
(***************************************************************************)
(* Model of the Modbus server core of sa3mv3g/jerry:                       *)
(*   application/dependencies/modbus/src/core/modbus_core.c                *)
(*   application/dependencies/modbus/src/core/modbus_pdu.c                 *)
(* A context (struct modbus_context) is driven by calls of modbus_init,    *)
(* modbus_deinit, modbus_reset_statistics, modbus_slave_process_pdu and    *)
(* modbus_slave_process_adu.  The eight application callbacks are the      *)
(* environment: each invocation returns an exception code and, for the     *)
(* read callbacks, may or may not store into the scratch buffer it is      *)
(* handed.                                                                 *)
(* The frame receivers of protocol/modbus_rtu.c, modbus_ascii.c and        *)
(* modbus_tcp.c are a second state machine (SpecRx): one receiver context  *)
(* fed with bytes, characters or chunks and polled with timestamps.        *)
(* The frame functions (build and parse of modbus_rtu.c, modbus_ascii.c    *)
(* and modbus_tcp.c, serialize and deserialize of modbus_pdu.c) are called *)
(* on ADUs, PDUs and frames in SpecFrame.  The                             *)
(* transaction-id counter of modbus_tcp.c is driven by sequential calls in *)
(* SpecTid; SpecThreads runs two threads through                           *)
(* modbus_tcp_get_next_transaction_id statement by statement.  SpecApp is  *)
(* the TCP server of application/src/modbus_task.c: the requests received  *)
(* on a connection are processed and answered by modbus_process_request.   *)
(***************************************************************************)
EXTENDS Integers, Sequences, FiniteSets, TLC

VARIABLES
    ctx,    \* the modbus_context_t instance
    call,   \* the API call that has just returned (op = "none": no call pending)
    rx,     \* the receiver context (modbus_rtu/ascii/tcp_rx_context_t)
    s_transaction_id,   \* the static counter of modbus_tcp.c
    thread  \* per thread: its position in modbus_tcp_get_next_transaction_id
            \* and its locals

vars == <<ctx, call, rx, s_transaction_id, thread>>

(***************************************************************************)
(* Bounds of the model                                                     *)
(***************************************************************************)
\* the guards stop feeding requests once requests_processed reaches this
MaxRequests == 2
\* a frame grows one byte or character per call while fewer than this many are
\* buffered; longer frames arrive as bursts
MaxStepIndex == 5
\* the bytes and characters of a frame vary below this index
MaxVariedIndex == 2

(***************************************************************************)
(* Program constants                                                       *)
(***************************************************************************)
\* mutation: the read-bits limit one too high
MAX_READ_COILS_off_by_one == 2000 + 1

MAX_READ_COILS == 2000
MAX_READ_REGISTERS == 125
MAX_WRITE_COILS == 1968
MAX_WRITE_REGISTERS == 123
MODBUS_MAX_PDU_SIZE == 253
COIL_BUFFER_SIZE == 256
REGISTER_BUFFER_SIZE == 125

MODBUS_COIL_ON == 65280
MODBUS_COIL_OFF == 0

MODBUS_EXCEPTION_NONE == 0
MODBUS_EXCEPTION_ILLEGAL_FUNCTION == 1
MODBUS_EXCEPTION_ILLEGAL_DATA_ADDRESS == 2
MODBUS_EXCEPTION_ILLEGAL_DATA_VALUE == 3
MODBUS_EXCEPTION_SLAVE_DEVICE_FAILURE == 4

MODBUS_FC_READ_COILS == 1
MODBUS_FC_READ_DISCRETE_INPUTS == 2
MODBUS_FC_READ_HOLDING_REGISTERS == 3
MODBUS_FC_READ_INPUT_REGISTERS == 4
MODBUS_FC_WRITE_SINGLE_COIL == 5
MODBUS_FC_WRITE_SINGLE_REGISTER == 6
MODBUS_FC_WRITE_MULTIPLE_COILS == 15
MODBUS_FC_WRITE_MULTIPLE_REGISTERS == 16

(***************************************************************************)
(* Fixed-width integer arithmetic                                          *)
(***************************************************************************)
Uint8(x) == x % 256
Uint16(x) == x % 65536

\* bitwise OR of two naturals (the C operator |)
RECURSIVE BitOr(_, _)
BitOr(a, b) ==
    IF a = 0 THEN b
    ELSE IF b = 0 THEN a
    ELSE (IF (a % 2) + (b % 2) > 0 THEN 1 ELSE 0) + 2 * BitOr(a \div 2, b \div 2)

Min(a, b) == IF a < b THEN a ELSE b

\* 2^n for n in 0..8
Pow2(n) == CASE n = 0 -> 1 [] n = 1 -> 2 [] n = 2 -> 4 [] n = 3 -> 8
             [] n = 4 -> 16 [] n = 5 -> 32 [] n = 6 -> 64 [] n = 7 -> 128
             [] OTHER -> 256

(***************************************************************************)
(* PDU helpers (modbus_pdu.c).  A modbus_pdu_t is the record               *)
(* [function_code, data]; data_length is Len(data).  C array offsets are   *)
(* 0-based, TLA+ sequences 1-based.                                        *)
(***************************************************************************)
pdu_write_uint16_be(value) == << Uint8(value \div 256), value % 256 >>

pdu_read_uint16_be(data, off) == Uint16(data[off + 1] * 256 + data[off + 2])

\* output arguments the callee did not write hold -1 in every scalar field
NoPdu == [function_code |-> -1, data |-> << >>]
NoAdu == [unit_id |-> -1, pdu |-> NoPdu, transaction_id |-> -1, protocol_id |-> -1]

\* mutation: the response data may take 250 bytes, not 252
modbus_pdu_encode_read_bits_response_short_pdu(function_code, coil_values, quantity) ==
    LET byte_count == Uint8((quantity + 7) \div 8) IN
    IF (1 + byte_count) <= (MODBUS_MAX_PDU_SIZE - 3)
    THEN [err |-> "OK",
          pdu |-> [function_code |-> function_code,
                   data |-> << byte_count >> \o SubSeq(coil_values, 1, byte_count)]]
    ELSE [err |-> "BUFFER_OVERFLOW", pdu |-> NoPdu]

modbus_pdu_encode_read_bits_response(function_code, coil_values, quantity) ==
    LET byte_count == Uint8((quantity + 7) \div 8) IN
    IF (1 + byte_count) <= (MODBUS_MAX_PDU_SIZE - 1)
    THEN [err |-> "OK",
          pdu |-> [function_code |-> function_code,
                   data |-> << byte_count >> \o SubSeq(coil_values, 1, byte_count)]]
    ELSE [err |-> "BUFFER_OVERFLOW", pdu |-> NoPdu]

modbus_pdu_encode_read_registers_response(function_code, register_values, quantity) ==
    LET byte_count == Uint8(quantity * 2) IN
    IF (1 + byte_count) <= (MODBUS_MAX_PDU_SIZE - 1)
    THEN [err |-> "OK",
          pdu |-> [function_code |-> function_code,
                   data |-> << byte_count >> \o
                            [k \in 1..(2 * quantity) |->
                                pdu_write_uint16_be(register_values[(k + 1) \div 2])
                                    [2 - (k % 2)]]]]
    ELSE [err |-> "BUFFER_OVERFLOW", pdu |-> NoPdu]

modbus_pdu_encode_write_single_response(function_code, address, value) ==
    [err |-> "OK",
     pdu |-> [function_code |-> function_code,
              data |-> pdu_write_uint16_be(address) \o pdu_write_uint16_be(value)]]

modbus_pdu_encode_write_multiple_response(function_code, start_address, quantity) ==
    [err |-> "OK",
     pdu |-> [function_code |-> function_code,
              data |-> pdu_write_uint16_be(start_address) \o
                       pdu_write_uint16_be(quantity)]]

\* mutation: the exception flag added instead of OR-ed in
modbus_pdu_encode_exception_adding_flag(function_code, exception_code) ==
    [err |-> "OK",
     pdu |-> [function_code |-> Uint8(function_code + 128),
              data |-> << Uint8(exception_code) >>]]

modbus_pdu_encode_exception(function_code, exception_code) ==
    [err |-> "OK",
     pdu |-> [function_code |-> BitOr(function_code, 128),
              data |-> << Uint8(exception_code) >>]]

\* a decoder's outputs when it fails before storing them
NoDecode(err) ==
    [err |-> err, start_address |-> -1, quantity |-> -1, value |-> -1,
     values |-> << >>]

modbus_pdu_decode_read_bits_request(pdu) ==
    IF Len(pdu.data) >= 4
    THEN [NoDecode("OK") EXCEPT !.start_address = pdu_read_uint16_be(pdu.data, 0),
                                !.quantity = pdu_read_uint16_be(pdu.data, 2)]
    ELSE NoDecode("FRAME")

modbus_pdu_decode_read_registers_request(pdu) ==
    IF Len(pdu.data) >= 4
    THEN [NoDecode("OK") EXCEPT !.start_address = pdu_read_uint16_be(pdu.data, 0),
                                !.quantity = pdu_read_uint16_be(pdu.data, 2)]
    ELSE NoDecode("FRAME")

\* mutation: the coil value is not validated (anything but 0xFF00 reads as OFF)
modbus_pdu_decode_write_single_coil_request_unvalidated(pdu) ==
    IF Len(pdu.data) >= 4
    THEN [NoDecode("OK") EXCEPT
              !.start_address = pdu_read_uint16_be(pdu.data, 0),
              !.value = IF pdu_read_uint16_be(pdu.data, 2) = 65280 THEN 1 ELSE 0]
    ELSE NoDecode("FRAME")

\* value is the decoded bool: 1 (true) for 0xFF00, 0 (false) for 0x0000
modbus_pdu_decode_write_single_coil_request(pdu) ==
    IF Len(pdu.data) >= 4
    THEN LET coil_value == pdu_read_uint16_be(pdu.data, 2) IN
         IF coil_value = MODBUS_COIL_ON \/ coil_value = MODBUS_COIL_OFF
         THEN [NoDecode("OK") EXCEPT !.start_address = pdu_read_uint16_be(pdu.data, 0),
                                     !.value = IF coil_value = MODBUS_COIL_ON THEN 1 ELSE 0]
         ELSE [NoDecode("FRAME") EXCEPT
                    !.start_address = pdu_read_uint16_be(pdu.data, 0)]
    ELSE NoDecode("FRAME")

modbus_pdu_decode_write_single_register_request(pdu) ==
    IF Len(pdu.data) >= 4
    THEN [NoDecode("OK") EXCEPT !.start_address = pdu_read_uint16_be(pdu.data, 0),
                                !.value = pdu_read_uint16_be(pdu.data, 2)]
    ELSE NoDecode("FRAME")

\* mutation: data_length is not compared with 5 + byte_count
modbus_pdu_decode_write_multiple_coils_request_unchecked_length(pdu) ==
    IF Len(pdu.data) >= 5
    THEN LET quantity == pdu_read_uint16_be(pdu.data, 2)
             partial == [NoDecode("FRAME") EXCEPT
                            !.start_address = pdu_read_uint16_be(pdu.data, 0),
                            !.quantity = quantity]
         IN IF pdu.data[5] = Uint8((quantity + 7) \div 8)
            THEN [partial EXCEPT !.err = "OK",
                                 !.values = SubSeq(pdu.data, 6, Len(pdu.data))]
            ELSE partial
    ELSE NoDecode("FRAME")

\* values is the slice the returned pointer &pdu->data[5] gives access to
modbus_pdu_decode_write_multiple_coils_request(pdu) ==
    IF Len(pdu.data) >= 5
    THEN LET start_address == pdu_read_uint16_be(pdu.data, 0)
             quantity == pdu_read_uint16_be(pdu.data, 2)
             byte_count == pdu.data[5]
             expected_bytes == Uint8((quantity + 7) \div 8)
             partial == [NoDecode("FRAME") EXCEPT !.start_address = start_address,
                                                  !.quantity = quantity]
         IN IF byte_count = expected_bytes
            THEN IF Len(pdu.data) >= 5 + byte_count
                 THEN [partial EXCEPT !.err = "OK",
                                      !.values = SubSeq(pdu.data, 6, Len(pdu.data))]
                 ELSE partial
            ELSE partial
    ELSE NoDecode("FRAME")

\* values is the destination array (the register scratch buffer) after the call
modbus_pdu_decode_write_multiple_registers_request(pdu, values, max_values) ==
    IF Len(pdu.data) >= 5
    THEN LET start_address == pdu_read_uint16_be(pdu.data, 0)
             quantity == pdu_read_uint16_be(pdu.data, 2)
             byte_count == pdu.data[5]
             partial == [NoDecode("FRAME") EXCEPT !.start_address = start_address,
                                                  !.quantity = quantity,
                                                  !.values = values]
         IN IF byte_count = quantity * 2
            THEN IF quantity <= max_values
                 THEN IF Len(pdu.data) >= 5 + byte_count
                      THEN [partial EXCEPT
                                !.err = "OK",
                                !.values = [i \in 1..Len(values) |->
                                    IF i <= quantity
                                    THEN pdu_read_uint16_be(pdu.data, 5 + (i - 1) * 2)
                                    ELSE values[i]]]
                      ELSE partial
                 ELSE [partial EXCEPT !.err = "BUFFER_OVERFLOW"]
            ELSE partial
    ELSE [NoDecode("FRAME") EXCEPT !.values = values]

(***************************************************************************)
(* The application callbacks (modbus_callbacks.h).  A behaviour cb of the  *)
(* application is [exc, stores, level]: the exception code every callback  *)
(* returns, whether a read callback stores the values it read into the     *)
(* buffer it is handed (the application's callbacks clear and fill it, the *)
(* unit-test stubs return NONE without touching it), and the level of all  *)
(* data points read (coils on/off, registers RegisterPattern(level)).      *)
(***************************************************************************)
CallbackBehaviours ==
    { [exc |-> MODBUS_EXCEPTION_NONE, stores |-> TRUE, level |-> 1],
      [exc |-> MODBUS_EXCEPTION_NONE, stores |-> FALSE, level |-> 0],
      [exc |-> MODBUS_EXCEPTION_ILLEGAL_DATA_ADDRESS, stores |-> FALSE, level |-> 0],
      [exc |-> MODBUS_EXCEPTION_SLAVE_DEVICE_FAILURE, stores |-> TRUE, level |-> 1] }

\* register value the application holds when level = 1 (0x1234)
RegisterPattern(level) == level * 4660

\* one callback invocation as the application sees it; values is the array the
\* callback is handed: the data to write, or for the read-bit callbacks the
\* output buffer as it is at the moment of the call
Invocation(fn, start_address, quantity, value, values, cb) ==
    [fn |-> fn, start_address |-> start_address, quantity |-> quantity,
     value |-> value, values |-> values, exc |-> cb.exc, stores |-> cb.stores,
     level |-> cb.level]

\* the bit buffer after modbus_cb_read_coils / modbus_cb_read_discrete_inputs:
\* the first (quantity + 7) / 8 bytes cleared, then one bit set per coil that is on
modbus_cb_read_bits(cb, quantity, coil_values) ==
    IF cb.stores
    THEN [i \in 1..Len(coil_values) |->
            IF i <= (quantity + 7) \div 8
            THEN cb.level * (Pow2(Min(8, quantity - 8 * (i - 1))) - 1)
            ELSE coil_values[i]]
    ELSE coil_values

\* the register buffer after modbus_cb_read_holding_registers / _input_registers
modbus_cb_read_registers(cb, quantity, register_values) ==
    IF cb.stores
    THEN [i \in 1..Len(register_values) |->
            IF i <= quantity THEN RegisterPattern(cb.level) ELSE register_values[i]]
    ELSE register_values

(***************************************************************************)
(* Request processing (modbus_core.c).  Every process_* operator yields    *)
(* [err, pdu, ctx, calls]: the returned error, the response PDU, the       *)
(* context afterwards and the callback invocations made, in order.         *)
(***************************************************************************)
Outcome(c, enc, calls) ==
    [err |-> enc.err, pdu |-> enc.pdu, ctx |-> c, calls |-> calls]

\* ctx->exceptions_sent++ (the uint32_t counters stay far below 2^32: the
\* guards stop at MaxRequests)
CountException(c) ==
    [c EXCEPT !.exceptions_sent = c.exceptions_sent + 1]

process_read_coils(c, request, cb) ==
    LET d == modbus_pdu_decode_read_bits_request(request)
        illegal == modbus_pdu_encode_exception(MODBUS_FC_READ_COILS,
                                               MODBUS_EXCEPTION_ILLEGAL_DATA_VALUE)
    IN  IF d.err # "OK" THEN Outcome(c, illegal, << >>)
        ELSE IF d.quantity = 0 \/ d.quantity > MAX_READ_COILS
        THEN Outcome(c, illegal, << >>)
        ELSE LET c1 == [c EXCEPT !.coil_buffer =
                            modbus_cb_read_bits(cb, d.quantity, c.coil_buffer)]
                 inv == << Invocation("read_coils", d.start_address, d.quantity,
                                      -1, c.coil_buffer, cb) >>
             IN  IF cb.exc # MODBUS_EXCEPTION_NONE
                 THEN Outcome(CountException(c1),
                              modbus_pdu_encode_exception(MODBUS_FC_READ_COILS, cb.exc),
                              inv)
                 ELSE Outcome(c1,
                              modbus_pdu_encode_read_bits_response(
                                  MODBUS_FC_READ_COILS, c1.coil_buffer, d.quantity),
                              inv)

process_read_discrete_inputs(c, request, cb) ==
    LET d == modbus_pdu_decode_read_bits_request(request)
        illegal == modbus_pdu_encode_exception(MODBUS_FC_READ_DISCRETE_INPUTS,
                                               MODBUS_EXCEPTION_ILLEGAL_DATA_VALUE)
    IN  IF d.err # "OK" THEN Outcome(c, illegal, << >>)
        ELSE IF d.quantity = 0 \/ d.quantity > MAX_READ_COILS
        THEN Outcome(c, illegal, << >>)
        ELSE LET c1 == [c EXCEPT !.coil_buffer =
                            modbus_cb_read_bits(cb, d.quantity, c.coil_buffer)]
                 inv == << Invocation("read_discrete_inputs", d.start_address,
                                      d.quantity, -1, c.coil_buffer, cb) >>
             IN  IF cb.exc # MODBUS_EXCEPTION_NONE
                 THEN Outcome(CountException(c1),
                              modbus_pdu_encode_exception(
                                  MODBUS_FC_READ_DISCRETE_INPUTS, cb.exc),
                              inv)
                 ELSE Outcome(c1,
                              modbus_pdu_encode_read_bits_response(
                                  MODBUS_FC_READ_DISCRETE_INPUTS, c1.coil_buffer,
                                  d.quantity),
                              inv)

process_read_holding_registers(c, request, cb) ==
    LET d == modbus_pdu_decode_read_registers_request(request)
        illegal == modbus_pdu_encode_exception(MODBUS_FC_READ_HOLDING_REGISTERS,
                                               MODBUS_EXCEPTION_ILLEGAL_DATA_VALUE)
    IN  IF d.err # "OK" THEN Outcome(c, illegal, << >>)
        ELSE IF d.quantity = 0 \/ d.quantity > MAX_READ_REGISTERS
        THEN Outcome(c, illegal, << >>)
        ELSE LET c1 == [c EXCEPT !.register_buffer =
                            modbus_cb_read_registers(cb, d.quantity, c.register_buffer)]
                 inv == << Invocation("read_holding_registers", d.start_address,
                                      d.quantity, -1, << >>, cb) >>
             IN  IF cb.exc # MODBUS_EXCEPTION_NONE
                 THEN Outcome(CountException(c1),
                              modbus_pdu_encode_exception(
                                  MODBUS_FC_READ_HOLDING_REGISTERS, cb.exc),
                              inv)
                 ELSE Outcome(c1,
                              modbus_pdu_encode_read_registers_response(
                                  MODBUS_FC_READ_HOLDING_REGISTERS, c1.register_buffer,
                                  d.quantity),
                              inv)

process_read_input_registers(c, request, cb) ==
    LET d == modbus_pdu_decode_read_registers_request(request)
        illegal == modbus_pdu_encode_exception(MODBUS_FC_READ_INPUT_REGISTERS,
                                               MODBUS_EXCEPTION_ILLEGAL_DATA_VALUE)
    IN  IF d.err # "OK" THEN Outcome(c, illegal, << >>)
        ELSE IF d.quantity = 0 \/ d.quantity > MAX_READ_REGISTERS
        THEN Outcome(c, illegal, << >>)
        ELSE LET c1 == [c EXCEPT !.register_buffer =
                            modbus_cb_read_registers(cb, d.quantity, c.register_buffer)]
                 inv == << Invocation("read_input_registers", d.start_address,
                                      d.quantity, -1, << >>, cb) >>
             IN  IF cb.exc # MODBUS_EXCEPTION_NONE
                 THEN Outcome(CountException(c1),
                              modbus_pdu_encode_exception(
                                  MODBUS_FC_READ_INPUT_REGISTERS, cb.exc),
                              inv)
                 ELSE Outcome(c1,
                              modbus_pdu_encode_read_registers_response(
                                  MODBUS_FC_READ_INPUT_REGISTERS, c1.register_buffer,
                                  d.quantity),
                              inv)

process_write_single_coil(c, request, cb) ==
    LET d == modbus_pdu_decode_write_single_coil_request(request) IN
    IF d.err # "OK"
    THEN Outcome(c, modbus_pdu_encode_exception(MODBUS_FC_WRITE_SINGLE_COIL,
                                                MODBUS_EXCEPTION_ILLEGAL_DATA_VALUE),
                 << >>)
    ELSE LET inv == << Invocation("write_single_coil", d.start_address, -1,
                                  d.value, << >>, cb) >>
         IN  IF cb.exc # MODBUS_EXCEPTION_NONE
             THEN Outcome(c, modbus_pdu_encode_exception(MODBUS_FC_WRITE_SINGLE_COIL,
                                                         cb.exc), inv)
             ELSE Outcome(c,
                          modbus_pdu_encode_write_single_response(
                              MODBUS_FC_WRITE_SINGLE_COIL, d.start_address,
                              IF d.value = 1 THEN MODBUS_COIL_ON ELSE MODBUS_COIL_OFF),
                          inv)

process_write_single_register(c, request, cb) ==
    LET d == modbus_pdu_decode_write_single_register_request(request) IN
    IF d.err # "OK"
    THEN Outcome(c, modbus_pdu_encode_exception(MODBUS_FC_WRITE_SINGLE_REGISTER,
                                                MODBUS_EXCEPTION_ILLEGAL_DATA_VALUE),
                 << >>)
    ELSE LET inv == << Invocation("write_single_register", d.start_address, -1,
                                  d.value, << >>, cb) >>
         IN  IF cb.exc # MODBUS_EXCEPTION_NONE
             THEN Outcome(c, modbus_pdu_encode_exception(
                                 MODBUS_FC_WRITE_SINGLE_REGISTER, cb.exc), inv)
             ELSE Outcome(c,
                          modbus_pdu_encode_write_single_response(
                              MODBUS_FC_WRITE_SINGLE_REGISTER, d.start_address, d.value),
                          inv)

\* mutation: the exception returned by the callback is dropped
process_write_multiple_coils_ignoring_exception(c, request, cb) ==
    LET d == modbus_pdu_decode_write_multiple_coils_request(request)
        illegal == modbus_pdu_encode_exception(15, 3)
    IN  IF d.err # "OK" \/ d.quantity = 0 \/ d.quantity > 1968
        THEN Outcome(c, illegal, << >>)
        ELSE Outcome(c,
                     modbus_pdu_encode_write_multiple_response(15, d.start_address,
                                                               d.quantity),
                     << Invocation("write_multiple_coils", d.start_address,
                                   d.quantity, -1, d.values, cb) >>)

process_write_multiple_coils(c, request, cb) ==
    LET d == modbus_pdu_decode_write_multiple_coils_request(request)
        illegal == modbus_pdu_encode_exception(MODBUS_FC_WRITE_MULTIPLE_COILS,
                                               MODBUS_EXCEPTION_ILLEGAL_DATA_VALUE)
    IN  IF d.err # "OK" THEN Outcome(c, illegal, << >>)
        ELSE IF d.quantity = 0 \/ d.quantity > MAX_WRITE_COILS
        THEN Outcome(c, illegal, << >>)
        ELSE LET inv == << Invocation("write_multiple_coils", d.start_address,
                                      d.quantity, -1, d.values, cb) >>
             IN  IF cb.exc # MODBUS_EXCEPTION_NONE
                 THEN Outcome(c, modbus_pdu_encode_exception(
                                     MODBUS_FC_WRITE_MULTIPLE_COILS, cb.exc), inv)
                 ELSE Outcome(c,
                              modbus_pdu_encode_write_multiple_response(
                                  MODBUS_FC_WRITE_MULTIPLE_COILS, d.start_address,
                                  d.quantity),
                              inv)

\* the decoder stores the request's registers into ctx->register_buffer, which is
\* then handed to the callback
process_write_multiple_registers(c, request, cb) ==
    LET d == modbus_pdu_decode_write_multiple_registers_request(
                 request, c.register_buffer, MAX_WRITE_REGISTERS)
        c1 == [c EXCEPT !.register_buffer = d.values]
        illegal == modbus_pdu_encode_exception(MODBUS_FC_WRITE_MULTIPLE_REGISTERS,
                                               MODBUS_EXCEPTION_ILLEGAL_DATA_VALUE)
    IN  IF d.err # "OK" THEN Outcome(c1, illegal, << >>)
        ELSE IF d.quantity = 0 \/ d.quantity > MAX_WRITE_REGISTERS
        THEN Outcome(c1, illegal, << >>)
        ELSE LET inv == << Invocation("write_multiple_registers", d.start_address,
                                      d.quantity, -1,
                                      SubSeq(c1.register_buffer, 1, d.quantity), cb) >>
             IN  IF cb.exc # MODBUS_EXCEPTION_NONE
                 THEN Outcome(c1, modbus_pdu_encode_exception(
                                      MODBUS_FC_WRITE_MULTIPLE_REGISTERS, cb.exc), inv)
                 ELSE Outcome(c1,
                              modbus_pdu_encode_write_multiple_response(
                                  MODBUS_FC_WRITE_MULTIPLE_REGISTERS, d.start_address,
                                  d.quantity),
                              inv)

\* modbus_init: the context zeroed, the configuration copied in
modbus_init(config) ==
    [config |-> config, state |-> "IDLE", initialized |-> TRUE,
     coil_buffer |-> [i \in 1..COIL_BUFFER_SIZE |-> 0],
     register_buffer |-> [i \in 1..REGISTER_BUFFER_SIZE |-> 0],
     requests_processed |-> 0, errors_count |-> 0, exceptions_sent |-> 0]

\* mutation: deinit of a context that is not initialized succeeds
modbus_deinit_idempotent(c) ==
    [err |-> "OK", ctx |-> [c EXCEPT !.initialized = FALSE, !.state = "IDLE"]]

modbus_deinit(c) ==
    IF ~c.initialized
    THEN [err |-> "NOT_INITIALIZED", ctx |-> c]
    ELSE [err |-> "OK", ctx |-> [c EXCEPT !.initialized = FALSE, !.state = "IDLE"]]

\* mutation: the exceptions counter survives a reset
modbus_reset_statistics_keeping_exceptions(c) ==
    IF c.initialized
    THEN [c EXCEPT !.requests_processed = 0, !.errors_count = 0]
    ELSE c

modbus_reset_statistics(c) ==
    IF c.initialized
    THEN [c EXCEPT !.requests_processed = 0, !.errors_count = 0,
                   !.exceptions_sent = 0]
    ELSE c

modbus_slave_process_pdu(c, request, cb) ==
    IF ~c.initialized
    THEN [err |-> "NOT_INITIALIZED", pdu |-> NoPdu, ctx |-> c, calls |-> << >>]
    ELSE LET c0 == [c EXCEPT !.requests_processed = c.requests_processed + 1]
             fc == request.function_code
             r == CASE fc = MODBUS_FC_READ_COILS ->
                         process_read_coils(c0, request, cb)
                    [] fc = MODBUS_FC_READ_DISCRETE_INPUTS ->
                         process_read_discrete_inputs(c0, request, cb)
                    [] fc = MODBUS_FC_READ_HOLDING_REGISTERS ->
                         process_read_holding_registers(c0, request, cb)
                    [] fc = MODBUS_FC_READ_INPUT_REGISTERS ->
                         process_read_input_registers(c0, request, cb)
                    [] fc = MODBUS_FC_WRITE_SINGLE_COIL ->
                         process_write_single_coil(c0, request, cb)
                    [] fc = MODBUS_FC_WRITE_SINGLE_REGISTER ->
                         process_write_single_register(c0, request, cb)
                    [] fc = MODBUS_FC_WRITE_MULTIPLE_COILS ->
                         process_write_multiple_coils(c0, request, cb)
                    [] fc = MODBUS_FC_WRITE_MULTIPLE_REGISTERS ->
                         process_write_multiple_registers(c0, request, cb)
                    [] OTHER ->
                         Outcome(CountException(c0),
                                 modbus_pdu_encode_exception(
                                     fc, MODBUS_EXCEPTION_ILLEGAL_FUNCTION),
                                 << >>)
         IN  IF r.err # "OK"
             THEN [r EXCEPT !.ctx.errors_count = r.ctx.errors_count + 1]
             ELSE r

\* mutation: broadcast is not let through the unit filter
request_for_other_unit_broadcast_too(c, request) ==
    request.unit_id # c.config.unit_id

\* mutation: no unit filter at all
request_for_other_unit_never(c, request) == FALSE

\* "not for us": (request->unit_id != ctx->config.unit_id) && (request->unit_id != 0U)
request_for_other_unit(c, request) ==
    request.unit_id # c.config.unit_id /\ request.unit_id # 0

\* mutation: broadcasts are answered
respond_always(request) == TRUE

\* *send_response = (request->unit_id != 0U)
respond_unless_broadcast(request) == request.unit_id # 0

\* mutation: the response carries the request's unit_id
modbus_slave_process_adu_echoing_unit_id(c, request, cb) ==
    IF request_for_other_unit(c, request)
    THEN [result |-> "OK", response |-> NoAdu, send_response |-> FALSE,
          ctx |-> c, calls |-> << >>]
    ELSE LET r == modbus_slave_process_pdu(c, request.pdu, cb) IN
         IF r.err # "OK"
         THEN [result |-> r.err, response |-> [NoAdu EXCEPT !.pdu = r.pdu],
               send_response |-> FALSE, ctx |-> r.ctx, calls |-> r.calls]
         ELSE [result |-> "OK",
               response |-> [unit_id |-> request.unit_id, pdu |-> r.pdu,
                             transaction_id |-> request.transaction_id,
                             protocol_id |-> request.protocol_id],
               send_response |-> respond_unless_broadcast(request),
               ctx |-> r.ctx, calls |-> r.calls]

\* yields [result, response, send_response, ctx, calls]
modbus_slave_process_adu(c, request, cb) ==
    IF request_for_other_unit(c, request)
    THEN [result |-> "OK", response |-> NoAdu, send_response |-> FALSE,
          ctx |-> c, calls |-> << >>]
    ELSE LET r == modbus_slave_process_pdu(c, request.pdu, cb) IN
         IF r.err # "OK"
         THEN [result |-> r.err, response |-> [NoAdu EXCEPT !.pdu = r.pdu],
               send_response |-> FALSE, ctx |-> r.ctx, calls |-> r.calls]
         ELSE [result |-> "OK",
               response |-> [unit_id |-> c.config.unit_id, pdu |-> r.pdu,
                             transaction_id |-> request.transaction_id,
                             protocol_id |-> request.protocol_id],
               send_response |-> respond_unless_broadcast(request),
               ctx |-> r.ctx, calls |-> r.calls]

(***************************************************************************)
(* 32-bit timestamps.  A uint32_t time is the pair <<high, low>> of its    *)
(* 16-bit halves, so that the receivers' unsigned subtraction keeps its    *)
(* width: the difference is taken modulo 2^32.                             *)
(***************************************************************************)
\* the uint32_t with value n, 0 <= n < 2^31
U32(n) == << n \div 65536, n % 65536 >>

\* (uint32_t)(a + b)
Add32(a, b) ==
    LET low == a[2] + b[2]
    IN  << (a[1] + b[1] + low \div 65536) % 65536, low % 65536 >>

\* (uint32_t)(a - b)
Sub32(a, b) ==
    LET low == a[2] - b[2]
        borrow == IF low < 0 THEN 1 ELSE 0
    IN  << (a[1] - b[1] - borrow) % 65536, low % 65536 >>

\* a < b on uint32_t
Lt32(a, b) == a[1] < b[1] \/ (a[1] = b[1] /\ a[2] < b[2])

(***************************************************************************)
(* RTU receiver (modbus_rtu.c).  buffer holds buffer[0 .. index-1], the    *)
(* bytes of the frame being received; the array elements from index on are *)
(* never read.  kind tells the three receiver contexts apart.              *)
(***************************************************************************)
MODBUS_RTU_MIN_FRAME_SIZE == 4
MODBUS_RTU_MAX_FRAME_SIZE == 256

modbus_rtu_get_interframe_delay_us(baudrate) ==
    IF baudrate = 0 THEN 1750
    ELSE IF baudrate > 19200 THEN 1750
    ELSE (38500000 + baudrate \div 2) \div baudrate

modbus_rtu_get_interchar_timeout_us(baudrate) ==
    IF baudrate = 0 THEN 750
    ELSE IF baudrate > 19200 THEN 750
    ELSE (16500000 + baudrate \div 2) \div baudrate

modbus_rtu_rx_init(baudrate) ==
    [kind |-> "rtu", state |-> "IDLE", buffer |-> << >>, index |-> 0,
     last_byte_time |-> U32(0),
     interchar_timeout_us |-> modbus_rtu_get_interchar_timeout_us(baudrate),
     interframe_delay_us |-> modbus_rtu_get_interframe_delay_us(baudrate)]

modbus_rtu_rx_reset(c) ==
    [c EXCEPT !.state = "IDLE", !.index = 0, !.buffer = << >>]

\* mutation: a byte is appended whatever the gap before it
rtu_interchar_expired_never(c, current_time_us) == FALSE

\* mutation: a timestamp below last_byte_time counts as no time elapsed
rtu_interchar_expired_without_wrap(c, current_time_us) ==
    /\ ~Lt32(current_time_us, c.last_byte_time)
    /\ Lt32(U32(c.interchar_timeout_us), Sub32(current_time_us, c.last_byte_time))

\* elapsed > ctx->interchar_timeout_us
rtu_interchar_expired(c, current_time_us) ==
    Lt32(U32(c.interchar_timeout_us), Sub32(current_time_us, c.last_byte_time))

\* mutation: the frame ends only after more than the inter-frame delay
rtu_interframe_expired_strictly(c, current_time_us) ==
    Lt32(U32(c.interframe_delay_us), Sub32(current_time_us, c.last_byte_time))

\* elapsed >= ctx->interframe_delay_us
rtu_interframe_expired(c, current_time_us) ==
    ~Lt32(Sub32(current_time_us, c.last_byte_time), U32(c.interframe_delay_us))

\* mutation: one byte more than the buffer holds is accepted
rtu_buffer_has_room_off_by_one(c) == c.index <= MODBUS_RTU_MAX_FRAME_SIZE

\* ctx->index < MODBUS_RTU_MAX_FRAME_SIZE
rtu_buffer_has_room(c) == c.index < MODBUS_RTU_MAX_FRAME_SIZE

\* yields [err, ctx]
modbus_rtu_rx_process_byte(c, byte, current_time_us) ==
    CASE c.state = "IDLE" ->
            [err |-> "OK",
             ctx |-> [c EXCEPT !.buffer = << byte >>, !.index = 1,
                               !.last_byte_time = current_time_us,
                               !.state = "RECEIVING"]]
      [] c.state = "RECEIVING" ->
            IF rtu_interchar_expired(c, current_time_us)
            THEN [err |-> "OK",
                  ctx |-> [c EXCEPT !.buffer = << byte >>, !.index = 1,
                                    !.last_byte_time = current_time_us]]
            ELSE IF rtu_buffer_has_room(c)
            THEN [err |-> "OK",
                  ctx |-> [c EXCEPT !.buffer = Append(c.buffer, byte),
                                    !.index = c.index + 1,
                                    !.last_byte_time = current_time_us]]
            ELSE [err |-> "BUFFER_OVERFLOW",
                  ctx |-> [c EXCEPT !.state = "ERROR",
                                    !.last_byte_time = current_time_us]]
      [] OTHER -> [err |-> "OK", ctx |-> c]

\* yields [result, ctx]
modbus_rtu_rx_is_complete(c, current_time_us) ==
    IF c.state = "COMPLETE" THEN [result |-> TRUE, ctx |-> c]
    ELSE IF c.state = "RECEIVING" /\ rtu_interframe_expired(c, current_time_us)
    THEN IF c.index >= MODBUS_RTU_MIN_FRAME_SIZE
         THEN [result |-> TRUE, ctx |-> [c EXCEPT !.state = "COMPLETE"]]
         ELSE [result |-> FALSE, ctx |-> [c EXCEPT !.state = "ERROR"]]
    ELSE [result |-> FALSE, ctx |-> c]

\* mutation: the frame is handed out in any state
modbus_rtu_rx_get_frame_in_any_state(c) ==
    [err |-> "OK", frame |-> SubSeq(c.buffer, 1, c.index)]

\* yields [err, frame]: *frame and *length as the sequence
\* buffer[0 .. index-1], empty when they were not written
modbus_rtu_rx_get_frame(c) ==
    IF c.state = "COMPLETE"
    THEN [err |-> "OK", frame |-> SubSeq(c.buffer, 1, c.index)]
    ELSE [err |-> "INVALID_STATE", frame |-> << >>]

(***************************************************************************)
(* ASCII receiver (modbus_ascii.c).  Characters are their codes.           *)
(***************************************************************************)
MODBUS_ASCII_START_CHAR == 58
MODBUS_ASCII_END_CR == 13
MODBUS_ASCII_END_LF == 10
MODBUS_ASCII_MAX_FRAME_LEN == 513

modbus_ascii_rx_init(timeout_ms) ==
    [kind |-> "ascii", state |-> "IDLE", buffer |-> << >>, index |-> 0,
     start_time |-> U32(0), timeout_ms |-> timeout_ms]

modbus_ascii_rx_reset(c) ==
    [c EXCEPT !.state = "IDLE", !.index = 0, !.buffer = << >>]

\* mutation: every stored character completes the frame
ascii_store_completing(c, ch, next_state) ==
    IF c.index < MODBUS_ASCII_MAX_FRAME_LEN
    THEN [err |-> "OK",
          ctx |-> [c EXCEPT !.buffer = Append(c.buffer, ch),
                            !.index = c.index + 1, !.state = "COMPLETE"]]
    ELSE [err |-> "BUFFER_OVERFLOW", ctx |-> [c EXCEPT !.state = "ERROR"]]

\* mutation: ':' is an ordinary character
ascii_is_start_char_never(ch) == FALSE

\* c == MODBUS_ASCII_START_CHAR
ascii_is_start_char(ch) == ch = MODBUS_ASCII_START_CHAR

\* buffer[0] = ':', index = 1, start_time = now, state = RECEIVING
ascii_start_frame(c, ch, current_time_ms) ==
    [c EXCEPT !.buffer = << ch >>, !.index = 1, !.start_time = current_time_ms,
              !.state = "RECEIVING"]

\* the character stored at buffer[index] if there is room, else the overflow
\* error; next_state is the state after a stored character
ascii_store(c, ch, next_state) ==
    IF c.index < MODBUS_ASCII_MAX_FRAME_LEN
    THEN [err |-> "OK",
          ctx |-> [c EXCEPT !.buffer = Append(c.buffer, ch),
                            !.index = c.index + 1, !.state = next_state]]
    ELSE [err |-> "BUFFER_OVERFLOW", ctx |-> [c EXCEPT !.state = "ERROR"]]

\* yields [err, ctx]
modbus_ascii_rx_process_char(c, ch, current_time_ms) ==
    CASE c.state = "IDLE" ->
            IF ascii_is_start_char(ch)
            THEN [err |-> "OK", ctx |-> ascii_start_frame(c, ch, current_time_ms)]
            ELSE [err |-> "OK", ctx |-> c]
      [] c.state = "RECEIVING" ->
            IF ascii_is_start_char(ch)
            THEN [err |-> "OK", ctx |-> ascii_start_frame(c, ch, current_time_ms)]
            ELSE IF ch = MODBUS_ASCII_END_CR
            THEN ascii_store(c, ch, "CR_RECEIVED")
            ELSE ascii_store(c, ch, "RECEIVING")
      [] c.state = "CR_RECEIVED" ->
            IF ch = MODBUS_ASCII_END_LF
            THEN ascii_store(c, ch, "COMPLETE")
            ELSE IF ascii_is_start_char(ch)
            THEN [err |-> "OK", ctx |-> ascii_start_frame(c, ch, current_time_ms)]
            ELSE [err |-> "FRAME", ctx |-> [c EXCEPT !.state = "ERROR"]]
      [] OTHER -> [err |-> "OK", ctx |-> c]

modbus_ascii_rx_is_complete(c) == c.state = "COMPLETE"

\* the context is const: the function only reads it
modbus_ascii_rx_is_timeout(c, current_time_ms) ==
    IF c.state = "RECEIVING" \/ c.state = "CR_RECEIVED"
    THEN LET elapsed == Sub32(current_time_ms, c.start_time)
         IN  ~Lt32(elapsed, U32(c.timeout_ms))
    ELSE FALSE

\* yields [err, frame]
modbus_ascii_rx_get_frame(c) ==
    IF c.state = "COMPLETE"
    THEN [err |-> "OK", frame |-> SubSeq(c.buffer, 1, c.index)]
    ELSE [err |-> "INVALID_STATE", frame |-> << >>]

(***************************************************************************)
(* TCP receiver (modbus_tcp.c)                                             *)
(***************************************************************************)
MODBUS_TCP_MBAP_SIZE == 7
MODBUS_TCP_MAX_FRAME_SIZE == 260
MODBUS_TCP_PROTOCOL_ID == 0

\* the 16-bit big-endian value at buffer[offset], buffer[offset + 1]
tcp_read_uint16_be(buffer, offset) == buffer[offset + 1] * 256 + buffer[offset + 2]

modbus_tcp_rx_init(timeout_ms) ==
    [kind |-> "tcp", state |-> "HEADER", buffer |-> << >>, index |-> 0,
     expected_length |-> MODBUS_TCP_MBAP_SIZE, start_time |-> U32(0),
     timeout_ms |-> timeout_ms]

\* mutation: reset leaves expected_length as it is
modbus_tcp_rx_reset_keeping_expected_length(c) ==
    [c EXCEPT !.state = "HEADER", !.index = 0, !.buffer = << >>]

modbus_tcp_rx_reset(c) ==
    [c EXCEPT !.state = "HEADER", !.index = 0, !.buffer = << >>,
              !.expected_length = MODBUS_TCP_MBAP_SIZE]

\* mutation: the protocol id of the header is not looked at
tcp_rx_phase_complete_any_protocol(c) ==
    IF c.state = "HEADER"
    THEN LET length_field == tcp_read_uint16_be(c.buffer, 4)
         IN  IF length_field < 2 \/ length_field > 254
             THEN [err |-> "FRAME", ctx |-> [c EXCEPT !.state = "ERROR"]]
             ELSE [err |-> "OK",
                   ctx |-> [c EXCEPT !.state = "PDU",
                               !.expected_length =
                                   MODBUS_TCP_MBAP_SIZE - 1 + length_field]]
    ELSE [err |-> "OK", ctx |-> [c EXCEPT !.state = "COMPLETE"]]

\* mutation: a length field below 2 is accepted
tcp_rx_phase_complete_any_short_length(c) ==
    IF c.state = "HEADER"
    THEN LET protocol_id == tcp_read_uint16_be(c.buffer, 2)
             length_field == tcp_read_uint16_be(c.buffer, 4)
             expected == MODBUS_TCP_MBAP_SIZE - 1 + length_field
         IN  IF protocol_id # MODBUS_TCP_PROTOCOL_ID
             THEN [err |-> "FRAME", ctx |-> [c EXCEPT !.state = "ERROR"]]
             ELSE IF length_field > 254
             THEN [err |-> "FRAME", ctx |-> [c EXCEPT !.state = "ERROR"]]
             ELSE IF expected > MODBUS_TCP_MAX_FRAME_SIZE
             THEN [err |-> "FRAME",
                   ctx |-> [c EXCEPT !.state = "ERROR", !.expected_length = expected]]
             ELSE [err |-> "OK",
                   ctx |-> [c EXCEPT !.state = "PDU", !.expected_length = expected]]
    ELSE [err |-> "OK", ctx |-> [c EXCEPT !.state = "COMPLETE"]]

\* the context once the current phase (header or PDU) has all its bytes
tcp_rx_phase_complete(c) ==
    IF c.state = "HEADER"
    THEN LET protocol_id == tcp_read_uint16_be(c.buffer, 2)
             length_field == tcp_read_uint16_be(c.buffer, 4)
             expected == MODBUS_TCP_MBAP_SIZE - 1 + length_field
         IN  IF protocol_id # MODBUS_TCP_PROTOCOL_ID
             THEN [err |-> "FRAME", ctx |-> [c EXCEPT !.state = "ERROR"]]
             ELSE IF length_field < 2 \/ length_field > 254
             THEN [err |-> "FRAME", ctx |-> [c EXCEPT !.state = "ERROR"]]
             ELSE IF expected > MODBUS_TCP_MAX_FRAME_SIZE
             THEN [err |-> "FRAME",
                   ctx |-> [c EXCEPT !.state = "ERROR", !.expected_length = expected]]
             ELSE [err |-> "OK",
                   ctx |-> [c EXCEPT !.state = "PDU", !.expected_length = expected]]
    ELSE [err |-> "OK", ctx |-> [c EXCEPT !.state = "COMPLETE"]]

\* the while loop of modbus_tcp_rx_process_data from the given offset on
RECURSIVE tcp_rx_copy(_, _, _)
tcp_rx_copy(c, data, offset) ==
    IF offset >= Len(data) \/ c.state = "COMPLETE"
    THEN [err |-> "OK", ctx |-> c]
    ELSE LET remaining == c.expected_length - c.index
             bytes_to_copy == Min(Len(data) - offset, remaining)
         IN  IF c.index + bytes_to_copy > MODBUS_TCP_MAX_FRAME_SIZE
             THEN [err |-> "BUFFER_OVERFLOW", ctx |-> [c EXCEPT !.state = "ERROR"]]
             ELSE LET c1 == [c EXCEPT
                                !.buffer = c.buffer \o
                                    SubSeq(data, offset + 1, offset + bytes_to_copy),
                                !.index = c.index + bytes_to_copy]
                  IN  IF c1.index >= c1.expected_length
                      THEN LET r == tcp_rx_phase_complete(c1)
                           IN  IF r.err # "OK" THEN r
                               ELSE tcp_rx_copy(r.ctx, data, offset + bytes_to_copy)
                      ELSE tcp_rx_copy(c1, data, offset + bytes_to_copy)

\* mutation: a call ends with the phase it began in, the rest of the chunk is
\* dropped
modbus_tcp_rx_process_data_one_phase_per_call(c, data, current_time_ms) ==
    IF c.state \in {"COMPLETE", "ERROR"}
    THEN [err |-> "INVALID_STATE", ctx |-> c]
    ELSE tcp_rx_copy(IF c.index = 0
                     THEN [c EXCEPT !.start_time = current_time_ms]
                     ELSE c,
                     SubSeq(data, 1, Min(Len(data), c.expected_length - c.index)),
                     0)

\* yields [err, ctx]
modbus_tcp_rx_process_data(c, data, current_time_ms) ==
    IF c.state \in {"COMPLETE", "ERROR"}
    THEN [err |-> "INVALID_STATE", ctx |-> c]
    ELSE tcp_rx_copy(IF c.index = 0
                     THEN [c EXCEPT !.start_time = current_time_ms]
                     ELSE c,
                     data, 0)

modbus_tcp_rx_is_complete(c) == c.state = "COMPLETE"

\* the context is const: the function only reads it
modbus_tcp_rx_is_timeout(c, current_time_ms) ==
    IF c.state # "COMPLETE" /\ c.state # "ERROR" /\ c.index > 0
    THEN LET elapsed == Sub32(current_time_ms, c.start_time)
         IN  ~Lt32(elapsed, U32(c.timeout_ms))
    ELSE FALSE

\* yields [err, frame]
modbus_tcp_rx_get_frame(c) ==
    IF c.state = "COMPLETE"
    THEN [err |-> "OK", frame |-> SubSeq(c.buffer, 1, c.index)]
    ELSE [err |-> "INVALID_STATE", frame |-> << >>]

(***************************************************************************)
(* Frame functions.  A frame is the sequence of its bytes or characters,   *)
(* frame_length is its length; build yields [err, frame], parse yields     *)
(* [err, adu].  An output argument that the callee did not write holds     *)
(* what NoAdu holds, a frame that was not built is empty.                  *)
(***************************************************************************)
\* yields [err, bytes]
modbus_pdu_serialize(pdu, buffer_size) ==
    LET total_length == 1 + Len(pdu.data)
    IN  IF buffer_size >= total_length
        THEN [err |-> "OK", bytes |-> << pdu.function_code >> \o pdu.data]
        ELSE [err |-> "BUFFER_OVERFLOW", bytes |-> << >>]

\* modbus_pdu_deserialize refusing a buffer of MODBUS_MAX_PDU_SIZE bytes
modbus_pdu_deserialize_below_max_pdu_size(buffer, length) ==
    IF length >= 1
    THEN IF length < MODBUS_MAX_PDU_SIZE
         THEN [err |-> "OK",
               pdu |-> [function_code |-> buffer[1],
                        data |-> SubSeq(buffer, 2, length)]]
         ELSE [err |-> "BUFFER_OVERFLOW", pdu |-> NoPdu]
    ELSE [err |-> "FRAME", pdu |-> NoPdu]

\* yields [err, pdu] from buffer[0 .. length-1]
modbus_pdu_deserialize(buffer, length) ==
    IF length >= 1
    THEN IF length <= MODBUS_MAX_PDU_SIZE
         THEN [err |-> "OK",
               pdu |-> [function_code |-> buffer[1],
                        data |-> SubSeq(buffer, 2, length)]]
         ELSE [err |-> "BUFFER_OVERFLOW", pdu |-> NoPdu]
    ELSE [err |-> "FRAME", pdu |-> NoPdu]

\* bitwise exclusive OR of two naturals below 2^bits (the C operator ^)
RECURSIVE BitXor(_, _, _)
BitXor(a, b, bits) ==
    IF bits = 0 THEN 0
    ELSE (((a % 2) + (b % 2)) % 2) + 2 * BitXor(a \div 2, b \div 2, bits - 1)

(***************************************************************************)
(* CRC-16 as specified: initial value 0xFFFF, polynomial 0xA001, bitwise.  *)
(***************************************************************************)
\* the CRC after one more byte: the byte is XORed into the low half, then
\* eight times the CRC is shifted right and, if a 1 was shifted out, XORed
\* with 0xA001 (bits 15, 13 and 0; bit 15 is clear after the shift)
crc16_update(crc, byte) ==
    LET shift(x) ==
            LET y == x \div 2
            IN  IF x % 2 = 1
                THEN 32768 + y
                     + (IF (y \div 8192) % 2 = 0 THEN 8192 ELSE -8192)
                     + (IF y % 2 = 0 THEN 1 ELSE -1)
                ELSE y
    IN  shift(shift(shift(shift(shift(shift(shift(shift(
            (crc \div 256) * 256 + BitXor(crc % 256, byte, 8)))))))))

\* the CRC after data[first], ..., data[last], taken by halves
RECURSIVE crc16_feed(_, _, _, _)
crc16_feed(crc, data, first, last) ==
    IF crc < 0 \/ first > last THEN crc
    ELSE IF first = last THEN crc16_update(crc, data[first])
    ELSE LET middle == (first + last) \div 2
         IN  crc16_feed(crc16_feed(crc, data, first, middle),
                        data, middle + 1, last)

modbus_crc16(data) == crc16_feed(65535, data, 1, Len(data))

\* the CRC over the whole frame, its two CRC bytes included, is 0
modbus_crc16_verify(frame) == Len(frame) >= 4 /\ modbus_crc16(frame) = 0

(***************************************************************************)
(* RTU frames (modbus_rtu.c)                                               *)
(***************************************************************************)
modbus_rtu_build_frame(adu, frame_size) ==
    LET pdu_length == 1 + Len(adu.pdu.data)
        total_length == 1 + pdu_length + 2
    IN  IF frame_size >= total_length
        THEN LET s == modbus_pdu_serialize(adu.pdu, frame_size - 1)
                 body == << adu.unit_id >> \o s.bytes
                 crc == modbus_crc16(body)
             IN  IF s.err = "OK"
                 THEN [err |-> "OK",
                       frame |-> body \o << crc % 256, crc \div 256 >>]
                 ELSE [err |-> s.err, frame |-> << >>]
        ELSE [err |-> "BUFFER_OVERFLOW", frame |-> << >>]

modbus_rtu_parse_frame(frame) ==
    LET frame_length == Len(frame)
    IN  IF frame_length < MODBUS_RTU_MIN_FRAME_SIZE
        THEN [err |-> "FRAME", adu |-> NoAdu]
        ELSE IF frame_length > MODBUS_RTU_MAX_FRAME_SIZE
        THEN [err |-> "FRAME", adu |-> NoAdu]
        ELSE IF ~modbus_crc16_verify(frame)
        THEN [err |-> "CRC", adu |-> NoAdu]
        ELSE LET d == modbus_pdu_deserialize(SubSeq(frame, 2, frame_length),
                                             frame_length - 1 - 2)
             IN  IF d.err = "OK"
                 THEN [err |-> "OK",
                       adu |-> [unit_id |-> frame[1], pdu |-> d.pdu,
                                transaction_id |-> 0, protocol_id |-> 0]]
                 ELSE [err |-> d.err,
                       adu |-> [NoAdu EXCEPT !.unit_id = frame[1]]]

(***************************************************************************)
(* LRC and hex conversion (modbus_lrc.c), ASCII frames (modbus_ascii.c)    *)
(***************************************************************************)
\* (uint8_t)(data[first] + ... + data[last]), taken by halves
RECURSIVE lrc_sum(_, _, _)
lrc_sum(data, first, last) ==
    IF first > last THEN 0
    ELSE IF first = last THEN Uint8(data[first])
    ELSE LET middle == (first + last) \div 2
         IN  Uint8(lrc_sum(data, first, middle) + lrc_sum(data, middle + 1, last))

\* the two's complement of the 8-bit sum
modbus_lrc(data) == Uint8(256 - lrc_sum(data, 1, Len(data)))

modbus_lrc_verify(data) == Len(data) >= 2 /\ lrc_sum(data, 1, Len(data)) = 0

\* <<high_char, low_char>>: the digits '0'..'9', 'A'..'F' of the two nibbles
modbus_byte_to_ascii(byte) ==
    LET nibble_to_ascii(nibble) ==
            IF nibble < 10 THEN 48 + nibble ELSE 65 + nibble - 10
    IN  << nibble_to_ascii((byte \div 16) % 16), nibble_to_ascii(byte % 16) >>

\* the byte of two hex digits (either case), -1 for MODBUS_ERROR_FRAME
modbus_ascii_to_byte(high_char, low_char) ==
    LET ascii_to_nibble(c) ==
            IF c >= 48 /\ c <= 57 THEN c - 48
            ELSE IF c >= 65 /\ c <= 70 THEN c - 65 + 10
            ELSE IF c >= 97 /\ c <= 102 THEN c - 97 + 10
            ELSE -1
        high_nibble == ascii_to_nibble(high_char)
        low_nibble == ascii_to_nibble(low_char)
    IN  IF high_nibble >= 0 /\ low_nibble >= 0
        THEN Uint8(high_nibble * 16) + low_nibble
        ELSE -1

\* the characters written; none (result 0) if they do not fit
modbus_binary_to_ascii(binary, ascii_size) ==
    LET ascii_len == Len(binary) * 2
    IN  IF Len(binary) > 0 /\ ascii_size >= ascii_len
        THEN [k \in 1 .. ascii_len |->
                modbus_byte_to_ascii(binary[(k + 1) \div 2])[2 - (k % 2)]]
        ELSE << >>

\* the bytes written; none (result 0) if the length is odd, the bytes do not
\* fit or a character is no hex digit
modbus_ascii_to_binary(ascii, binary_size) ==
    LET binary_len == Len(ascii) \div 2
        binary == [i \in 1 .. binary_len |->
                      modbus_ascii_to_byte(ascii[2 * i - 1], ascii[2 * i])]
    IN  IF Len(ascii) > 0 /\ Len(ascii) % 2 = 0 /\ binary_size >= binary_len
           /\ \A i \in 1 .. binary_len : binary[i] >= 0
        THEN binary
        ELSE << >>

MODBUS_ASCII_MIN_FRAME_LEN == 9
MODBUS_ASCII_MAX_BINARY_LEN == 254

\* yields [err, frame, lrc_index]; lrc_index is the index of binary_buffer
\* that the LRC byte is stored at (-1: none stored).  The array has the
\* indices 0 .. MODBUS_ASCII_MAX_BINARY_LEN - 1: a store at index
\* MODBUS_ASCII_MAX_BINARY_LEN is outside it, and beyond is the byte that
\* modbus_binary_to_ascii then reads from there.
modbus_ascii_build_frame(adu, frame_size, beyond) ==
    LET s == modbus_pdu_serialize(adu.pdu, MODBUS_ASCII_MAX_BINARY_LEN - 1)
        binary == << adu.unit_id >> \o s.bytes
        lrc == modbus_lrc(binary)
        lrc_index == Len(binary)
        binary_len == Len(binary) + 1
        stored == IF lrc_index < MODBUS_ASCII_MAX_BINARY_LEN THEN lrc ELSE beyond
    IN  IF s.err = "OK"
        THEN IF frame_size >= 1 + binary_len * 2 + 2
             THEN LET ascii == modbus_binary_to_ascii(Append(binary, stored),
                                                      frame_size - 3)
                  IN  IF Len(ascii) > 0
                      THEN [err |-> "OK",
                            frame |-> << MODBUS_ASCII_START_CHAR >> \o ascii \o
                                      << MODBUS_ASCII_END_CR, MODBUS_ASCII_END_LF >>,
                            lrc_index |-> lrc_index]
                      ELSE [err |-> "BUFFER_OVERFLOW", frame |-> << >>,
                            lrc_index |-> lrc_index]
             ELSE [err |-> "BUFFER_OVERFLOW", frame |-> << >>,
                   lrc_index |-> lrc_index]
        ELSE [err |-> s.err, frame |-> << >>, lrc_index |-> -1]

modbus_ascii_parse_frame(frame) ==
    LET frame_length == Len(frame)
    IN  IF frame_length < MODBUS_ASCII_MIN_FRAME_LEN
        THEN [err |-> "FRAME", adu |-> NoAdu]
        ELSE IF frame[1] # MODBUS_ASCII_START_CHAR
        THEN [err |-> "FRAME", adu |-> NoAdu]
        ELSE IF frame[frame_length - 1] # MODBUS_ASCII_END_CR
                \/ frame[frame_length] # MODBUS_ASCII_END_LF
        THEN [err |-> "FRAME", adu |-> NoAdu]
        ELSE IF (frame_length - 3) % 2 # 0
        THEN [err |-> "FRAME", adu |-> NoAdu]
        ELSE LET binary == modbus_ascii_to_binary(
                               SubSeq(frame, 2, frame_length - 2),
                               MODBUS_ASCII_MAX_BINARY_LEN + 1)
                 binary_len == Len(binary)
             IN  IF binary_len = 0
                 THEN [err |-> "FRAME", adu |-> NoAdu]
                 ELSE IF ~modbus_lrc_verify(binary)
                 THEN [err |-> "CRC", adu |-> NoAdu]
                 ELSE LET d == modbus_pdu_deserialize(
                                   SubSeq(binary, 2, binary_len - 1),
                                   binary_len - 2)
                      IN  IF d.err = "OK"
                          THEN [err |-> "OK",
                                adu |-> [unit_id |-> binary[1], pdu |-> d.pdu,
                                         transaction_id |-> 0,
                                         protocol_id |-> 0]]
                          ELSE [err |-> d.err,
                                adu |-> [NoAdu EXCEPT !.unit_id = binary[1]]]

(***************************************************************************)
(* TCP frames and the transaction-id counter (modbus_tcp.c)                *)
(***************************************************************************)
MODBUS_TCP_MIN_FRAME_SIZE == 8

\* mutation: the length field counts the PDU without the unit id
modbus_tcp_build_frame_length_without_unit_id(adu, frame_size) ==
    LET pdu_length == 1 + Len(adu.pdu.data)
        s == modbus_pdu_serialize(adu.pdu, frame_size - MODBUS_TCP_MBAP_SIZE)
    IN  IF frame_size >= MODBUS_TCP_MBAP_SIZE + pdu_length
        THEN [err |-> "OK",
              frame |-> pdu_write_uint16_be(adu.transaction_id) \o
                        pdu_write_uint16_be(MODBUS_TCP_PROTOCOL_ID) \o
                        pdu_write_uint16_be(pdu_length) \o
                        << adu.unit_id >> \o s.bytes]
        ELSE [err |-> "BUFFER_OVERFLOW", frame |-> << >>]

modbus_tcp_build_frame(adu, frame_size) ==
    LET pdu_length == 1 + Len(adu.pdu.data)
        total_length == MODBUS_TCP_MBAP_SIZE + pdu_length
    IN  IF frame_size >= total_length
        THEN LET s == modbus_pdu_serialize(adu.pdu,
                                           frame_size - MODBUS_TCP_MBAP_SIZE)
             IN  IF s.err = "OK"
                 THEN [err |-> "OK",
                       frame |-> pdu_write_uint16_be(adu.transaction_id) \o
                                 pdu_write_uint16_be(MODBUS_TCP_PROTOCOL_ID) \o
                                 pdu_write_uint16_be(1 + pdu_length) \o
                                 << adu.unit_id >> \o s.bytes]
                 ELSE [err |-> s.err, frame |-> << >>]
        ELSE [err |-> "BUFFER_OVERFLOW", frame |-> << >>]

\* mutation: the length field is not compared with the frame length
modbus_tcp_parse_frame_ignoring_length_field(frame) ==
    LET frame_length == Len(frame)
    IN  IF frame_length < MODBUS_TCP_MIN_FRAME_SIZE
           \/ frame_length > MODBUS_TCP_MAX_FRAME_SIZE
           \/ tcp_read_uint16_be(frame, 2) # MODBUS_TCP_PROTOCOL_ID
        THEN [err |-> "FRAME", adu |-> NoAdu]
        ELSE [err |-> "OK",
              adu |-> [unit_id |-> frame[7],
                       pdu |-> modbus_pdu_deserialize(
                                   SubSeq(frame, 8, frame_length),
                                   frame_length - 7).pdu,
                       transaction_id |-> tcp_read_uint16_be(frame, 0),
                       protocol_id |-> 0]]

modbus_tcp_parse_frame(frame) ==
    LET frame_length == Len(frame)
    IN  IF frame_length < MODBUS_TCP_MIN_FRAME_SIZE
        THEN [err |-> "FRAME", adu |-> NoAdu]
        ELSE IF frame_length > MODBUS_TCP_MAX_FRAME_SIZE
        THEN [err |-> "FRAME", adu |-> NoAdu]
        ELSE LET protocol_id == tcp_read_uint16_be(frame, 2)
                 length_field == tcp_read_uint16_be(frame, 4)
                 pdu_length == Uint16(length_field - 1)
                 header == [unit_id |-> frame[7], pdu |-> NoPdu,
                            transaction_id |-> tcp_read_uint16_be(frame, 0),
                            protocol_id |-> protocol_id]
             IN  IF protocol_id # MODBUS_TCP_PROTOCOL_ID
                 THEN [err |-> "FRAME", adu |-> NoAdu]
                 ELSE IF MODBUS_TCP_MBAP_SIZE - 1 + length_field # frame_length
                 THEN [err |-> "FRAME", adu |-> NoAdu]
                 ELSE LET d == modbus_pdu_deserialize(
                                   SubSeq(frame, 8, frame_length), pdu_length)
                      IN  IF d.err = "OK"
                          THEN [err |-> "OK", adu |-> [header EXCEPT !.pdu = d.pdu]]
                          ELSE [err |-> d.err, adu |-> header]

\* mutation: the counter does not wrap at 2^16
modbus_tcp_get_next_transaction_id_unbounded(counter) ==
    [id |-> counter, s_transaction_id |-> counter + 1]

\* yields the id returned and the counter after the call
modbus_tcp_get_next_transaction_id(counter) ==
    [id |-> counter, s_transaction_id |-> Uint16(counter + 1)]

(***************************************************************************)
(* Inputs                                                                  *)
(***************************************************************************)
ConfigUnitIds == {0, 1}
RequestUnitIds == {0, 1, 2}
\* <<transaction_id, protocol_id>> of a request ADU
RequestHeaders == { <<0, 0>>, <<4660, 1>> }

Fill(n, v) == [i \in 1..n |-> v]
RegisterBytes(n) == [k \in 1..n |-> IF k % 2 = 1 THEN 18 ELSE 52]

\* start(2) quantity(2)
ReadRequest(fc, quantity) ==
    [function_code |-> fc,
     data |-> pdu_write_uint16_be(428) \o pdu_write_uint16_be(quantity)]

\* address(2) value(2)
WriteSingleRequest(fc, value) ==
    [function_code |-> fc,
     data |-> pdu_write_uint16_be(172) \o pdu_write_uint16_be(value)]

\* start(2) quantity(2) byte_count(1) payload
WriteMultipleRequest(fc, quantity, byte_count, payload) ==
    [function_code |-> fc,
     data |-> pdu_write_uint16_be(428) \o pdu_write_uint16_be(quantity) \o
              << byte_count >> \o payload]

ShortRequest(fc, n) == [function_code |-> fc, data |-> Fill(n, 0)]

ReadBitsQuantities == {0, 9, MAX_READ_COILS, MAX_READ_COILS + 1}
ReadRegistersQuantities == {0, 2, MAX_READ_REGISTERS, MAX_READ_REGISTERS + 1}
SingleCoilValues == {MODBUS_COIL_OFF, MODBUS_COIL_ON, 4660}
\* <<quantity, byte_count, number of payload bytes>>
WriteCoilsShapes ==
    { <<0, 0, 0>>, <<9, 2, 2>>, <<9, 1, 1>>, <<9, 2, 1>>,
      <<MAX_WRITE_COILS, 246, 246>>, <<MAX_WRITE_COILS + 1, 247, 247>>,
      <<2056, 1, 1>> }
WriteRegistersShapes ==
    { <<0, 0, 0>>, <<2, 4, 4>>, <<2, 3, 4>>, <<2, 4, 3>>,
      <<MAX_WRITE_REGISTERS, 246, 246>>, <<MAX_WRITE_REGISTERS + 1, 248, 247>>,
      <<128, 0, 0>> }
UnsupportedFunctionCodes == {0, 7, 23, 133, 255}

RequestPdus ==
    { ReadRequest(fc, q) :
        fc \in {MODBUS_FC_READ_COILS, MODBUS_FC_READ_DISCRETE_INPUTS},
        q \in ReadBitsQuantities }
    \cup { ReadRequest(fc, q) :
        fc \in {MODBUS_FC_READ_HOLDING_REGISTERS, MODBUS_FC_READ_INPUT_REGISTERS},
        q \in ReadRegistersQuantities }
    \cup { WriteSingleRequest(MODBUS_FC_WRITE_SINGLE_COIL, v) : v \in SingleCoilValues }
    \cup { WriteSingleRequest(MODBUS_FC_WRITE_SINGLE_REGISTER, 2) }
    \cup { WriteMultipleRequest(MODBUS_FC_WRITE_MULTIPLE_COILS, w[1], w[2],
                                Fill(w[3], 255)) : w \in WriteCoilsShapes }
    \cup { WriteMultipleRequest(MODBUS_FC_WRITE_MULTIPLE_REGISTERS, w[1], w[2],
                                RegisterBytes(w[3])) : w \in WriteRegistersShapes }
    \cup { ShortRequest(fc, 3) : fc \in 1..6 }
    \cup { ShortRequest(fc, 4) :
            fc \in {MODBUS_FC_WRITE_MULTIPLE_COILS, MODBUS_FC_WRITE_MULTIPLE_REGISTERS} }
    \cup { ShortRequest(fc, 0) : fc \in UnsupportedFunctionCodes }

\* the PDUs that arrive wrapped in an ADU: one or two of every kind above
AduPdus ==
    { ReadRequest(MODBUS_FC_READ_COILS, 9),
      ReadRequest(MODBUS_FC_READ_DISCRETE_INPUTS, MAX_READ_COILS + 1),
      ReadRequest(MODBUS_FC_READ_HOLDING_REGISTERS, 2),
      ReadRequest(MODBUS_FC_READ_INPUT_REGISTERS, 0),
      WriteSingleRequest(MODBUS_FC_WRITE_SINGLE_COIL, MODBUS_COIL_ON),
      WriteSingleRequest(MODBUS_FC_WRITE_SINGLE_COIL, 4660),
      WriteSingleRequest(MODBUS_FC_WRITE_SINGLE_REGISTER, 2),
      WriteMultipleRequest(MODBUS_FC_WRITE_MULTIPLE_COILS, 9, 2, Fill(2, 255)),
      WriteMultipleRequest(MODBUS_FC_WRITE_MULTIPLE_REGISTERS, 2, 4, RegisterBytes(4)),
      WriteMultipleRequest(MODBUS_FC_WRITE_MULTIPLE_REGISTERS, 2, 4, RegisterBytes(3)),
      ShortRequest(MODBUS_FC_READ_HOLDING_REGISTERS, 3),
      ShortRequest(7, 0) }

RequestAdus ==
    { [unit_id |-> u, pdu |-> p, transaction_id |-> h[1], protocol_id |-> h[2]] :
        u \in RequestUnitIds, p \in AduPdus, h \in RequestHeaders }

(***************************************************************************)
(* State machine                                                           *)
(***************************************************************************)
NoCall == [op |-> "none"]

Returned(op, pre, request, result, response, send_response, calls) ==
    [op |-> op, pre |-> pre, request |-> request, result |-> result,
     response |-> response, send_response |-> send_response, calls |-> calls]

\* no receiver is in use
NoRx == [kind |-> "none"]

\* no thread is inside modbus_tcp_get_next_transaction_id
NoThread == << >>

Init ==
    /\ ctx \in { modbus_init([unit_id |-> u]) : u \in ConfigUnitIds }
    /\ call = NoCall
    /\ rx = NoRx
    /\ s_transaction_id = 0
    /\ thread = NoThread

ModbusInit(config) ==
    /\ call = NoCall
    /\ ctx' = modbus_init(config)
    /\ call' = Returned("init", ctx, NoAdu, "OK", NoAdu, FALSE, << >>)
    /\ UNCHANGED <<rx, s_transaction_id, thread>>

ModbusDeinit ==
    /\ call = NoCall
    /\ \E r \in { modbus_deinit(ctx) } :
        /\ ctx' = r.ctx
        /\ call' = Returned("deinit", ctx, NoAdu, r.err, NoAdu, FALSE, << >>)
    /\ UNCHANGED <<rx, s_transaction_id, thread>>

ResetStatistics ==
    /\ call = NoCall
    /\ ctx' = modbus_reset_statistics(ctx)
    /\ call' = Returned("reset_statistics", ctx, NoAdu, "OK", NoAdu, FALSE, << >>)
    /\ UNCHANGED <<rx, s_transaction_id, thread>>

ProcessPdu(request, cb) ==
    /\ call = NoCall
    /\ ctx.requests_processed < MaxRequests
    /\ \E r \in { modbus_slave_process_pdu(ctx, request, cb) } :
        /\ ctx' = r.ctx
        /\ call' = Returned("process_pdu", ctx, [NoAdu EXCEPT !.pdu = request],
                            r.err, [NoAdu EXCEPT !.pdu = r.pdu], FALSE, r.calls)
    /\ UNCHANGED <<rx, s_transaction_id, thread>>

ProcessAdu(request, cb) ==
    /\ call = NoCall
    /\ ctx.requests_processed < MaxRequests
    /\ \E r \in { modbus_slave_process_adu(ctx, request, cb) } :
        /\ ctx' = r.ctx
        /\ call' = Returned("process_adu", ctx, request, r.result, r.response,
                            r.send_response, r.calls)
    /\ UNCHANGED <<rx, s_transaction_id, thread>>

\* the caller takes the outputs of the call (and transmits the response when
\* send_response is set) before it makes the next call
Deliver ==
    /\ call # NoCall
    /\ call' = NoCall
    /\ UNCHANGED <<ctx, rx, s_transaction_id, thread>>

Next ==
    \/ \E u \in ConfigUnitIds : ModbusInit([unit_id |-> u])
    \/ ModbusDeinit
    \/ ResetStatistics
    \/ \E p \in RequestPdus, cb \in CallbackBehaviours : ProcessPdu(p, cb)
    \/ \E a \in RequestAdus, cb \in CallbackBehaviours : ProcessAdu(a, cb)
    \/ Deliver

Spec == Init /\ [][Next]_vars

(***************************************************************************)
(* Receiver inputs                                                         *)
(***************************************************************************)
RtuBaudrates == {9600, 115200}
RxTimeoutsMs == {1000}

\* timestamps in microseconds: just before the counter wraps, 0, and the first
\* timestamps at and around the two RTU timeouts after 0
RtuTimes(c) ==
    IF c.kind # "rtu" THEN {}
    ELSE { << 65535, 65535 >>, U32(0),
           U32(c.interchar_timeout_us), U32(c.interchar_timeout_us + 1),
           U32(c.interframe_delay_us - 1), U32(c.interframe_delay_us) }

\* timestamps in milliseconds for the ASCII and TCP receivers
RxTimesMs(c) ==
    IF c.kind = "rtu" THEN {}
    ELSE { << 65535, 65535 >>, U32(0), U32(c.timeout_ms) }

\* two byte values while the frame is short, one filler value after that
RtuBytes(c) == IF c.index < MaxVariedIndex THEN {1, 3} ELSE {3}

\* bursts that fill the buffer exactly and that exceed it by one byte
RtuBursts ==
    { Fill(MODBUS_RTU_MAX_FRAME_SIZE, 3), Fill(MODBUS_RTU_MAX_FRAME_SIZE + 1, 3) }

\* ':', CR, LF and 'A'; LF inside a long frame is one more regular character
AsciiChars(c) ==
    IF c.state = "CR_RECEIVED" \/ c.index < MaxVariedIndex
    THEN {MODBUS_ASCII_START_CHAR, MODBUS_ASCII_END_CR, MODBUS_ASCII_END_LF, 65}
    ELSE {MODBUS_ASCII_START_CHAR, MODBUS_ASCII_END_CR, 65}

\* a frame of maximal length, and frames whose last regular character, CR or LF
\* is one more than the buffer holds
AsciiBursts ==
    { << MODBUS_ASCII_START_CHAR >> \o Fill(MODBUS_ASCII_MAX_FRAME_LEN - 3, 65)
         \o << MODBUS_ASCII_END_CR, MODBUS_ASCII_END_LF >>,
      << MODBUS_ASCII_START_CHAR >> \o Fill(MODBUS_ASCII_MAX_FRAME_LEN, 65),
      << MODBUS_ASCII_START_CHAR >> \o Fill(MODBUS_ASCII_MAX_FRAME_LEN - 1, 65)
         \o << MODBUS_ASCII_END_CR >>,
      << MODBUS_ASCII_START_CHAR >> \o Fill(MODBUS_ASCII_MAX_FRAME_LEN - 2, 65)
         \o << MODBUS_ASCII_END_CR, MODBUS_ASCII_END_LF >> }

\* MBAP header (transaction id, protocol id, length, unit id) and PDU
TcpFrame(transaction_id, protocol_id, length_field, unit_id, pdu) ==
    pdu_write_uint16_be(transaction_id) \o pdu_write_uint16_be(protocol_id) \o
    pdu_write_uint16_be(length_field) \o << unit_id >> \o pdu

\* byte streams of a connection: a read request followed by the start of the
\* next one, a wrong protocol id, length fields 1 and 255, the longest frame
TcpStreams ==
    { TcpFrame(4660, 0, 6, 1, << 3, 1, 172, 0, 2 >>) \o << 18, 53, 0 >>,
      TcpFrame(4660, 1, 6, 1, << 3, 1, 172, 0, 2 >>),
      TcpFrame(4660, 0, 1, 1, << 3 >>),
      TcpFrame(4660, 0, 255, 1, Fill(254, 3)),
      TcpFrame(4660, 0, 254, 1, Fill(253, 3)) \o << 18 >> }

\* a chunk is one byte, as many bytes as a header has, or the rest of the
\* stream; the short chunks come while the frame is short
TcpChunkLengths == {1, MODBUS_TCP_MBAP_SIZE, MODBUS_TCP_MAX_FRAME_SIZE + 1}

\* the next n bytes of the stream after those the receiver has buffered
TcpChunk(stream, c, n) ==
    SubSeq(stream, c.index + 1, Min(Len(stream), c.index + n))

(***************************************************************************)
(* Receiver state machine                                                  *)
(***************************************************************************)
\* call after a receiver function returned: the context before the call, the
\* byte, character or chunk and the timestamp passed, and the value returned
RxReturned(op, pre, input, time, result) ==
    [op |-> op, pre |-> pre, input |-> input, time |-> time, result |-> result]

\* the context after modbus_rtu_rx_process_byte was called for bytes[first],
\* ..., bytes[last] in this order with one timestamp (c itself if first > last).
\* The bytes are taken by halves, each half on the evaluated context of the one
\* before it, which keeps the nesting of the evaluation shallow.
RECURSIVE rtu_rx_feed(_, _, _, _, _)
rtu_rx_feed(c, bytes, first, last, ts) ==
    IF c.kind # "rtu" \/ first > last THEN c
    ELSE IF first = last
    THEN modbus_rtu_rx_process_byte(c, bytes[first], ts).ctx
    ELSE LET middle == (first + last) \div 2
         IN  rtu_rx_feed(rtu_rx_feed(c, bytes, first, middle, ts),
                         bytes, middle + 1, last, ts)

\* the same for modbus_ascii_rx_process_char
RECURSIVE ascii_rx_feed(_, _, _, _, _)
ascii_rx_feed(c, chars, first, last, ts) ==
    IF c.kind # "ascii" \/ first > last THEN c
    ELSE IF first = last
    THEN modbus_ascii_rx_process_char(c, chars[first], ts).ctx
    ELSE LET middle == (first + last) \div 2
         IN  ascii_rx_feed(ascii_rx_feed(c, chars, first, middle, ts),
                           chars, middle + 1, last, ts)

\* the context after modbus_tcp_rx_process_data was called once for each of
\* data[first], ..., data[last] in this order, one byte per call
RECURSIVE tcp_rx_feed(_, _, _, _, _)
tcp_rx_feed(c, data, first, last, ts) ==
    IF c.kind # "tcp" \/ first > last THEN c
    ELSE IF first = last
    THEN modbus_tcp_rx_process_data(c, << data[first] >>, ts).ctx
    ELSE LET middle == (first + last) \div 2
         IN  tcp_rx_feed(tcp_rx_feed(c, data, first, middle, ts),
                         data, middle + 1, last, ts)

InitRx ==
    /\ ctx = modbus_init([unit_id |-> 0])
    /\ call = NoCall
    /\ rx \in { modbus_rtu_rx_init(b) : b \in RtuBaudrates }
            \cup { modbus_ascii_rx_init(t) : t \in RxTimeoutsMs }
            \cup { modbus_tcp_rx_init(t) : t \in RxTimeoutsMs }
    /\ s_transaction_id = 0
    /\ thread = NoThread

RtuRxProcessByte(byte, ts) ==
    /\ call = NoCall /\ rx.kind = "rtu"
    /\ rx.index < MaxStepIndex
    /\ \E r \in { modbus_rtu_rx_process_byte(rx, byte, ts) } :
        /\ rx' = r.ctx
        /\ call' = RxReturned("rtu_process_byte", rx, byte, ts, r.err)
    /\ UNCHANGED <<ctx, s_transaction_id, thread>>

RtuRxProcessBurst(bytes, ts) ==
    /\ call = NoCall /\ rx.kind = "rtu"
    /\ \E pre \in { rtu_rx_feed(rx, bytes, 1, Len(bytes) - 1, ts) } :
       \E r \in { modbus_rtu_rx_process_byte(pre, bytes[Len(bytes)], ts) } :
        /\ rx' = r.ctx
        /\ call' = RxReturned("rtu_process_byte", pre, bytes[Len(bytes)], ts, r.err)
    /\ UNCHANGED <<ctx, s_transaction_id, thread>>

RtuRxIsComplete(ts) ==
    /\ call = NoCall /\ rx.kind = "rtu"
    /\ \E r \in { modbus_rtu_rx_is_complete(rx, ts) } :
        /\ rx' = r.ctx
        /\ call' = RxReturned("rtu_is_complete", rx, << >>, ts, r.result)
    /\ UNCHANGED <<ctx, s_transaction_id, thread>>

RtuRxReset ==
    /\ call = NoCall /\ rx.kind = "rtu"
    /\ rx' = modbus_rtu_rx_reset(rx)
    /\ call' = RxReturned("rtu_reset", rx, << >>, << >>, "OK")
    /\ UNCHANGED <<ctx, s_transaction_id, thread>>

AsciiRxProcessChar(ch, ts) ==
    /\ call = NoCall /\ rx.kind = "ascii"
    /\ rx.index < MaxStepIndex
    /\ \E r \in { modbus_ascii_rx_process_char(rx, ch, ts) } :
        /\ rx' = r.ctx
        /\ call' = RxReturned("ascii_process_char", rx, ch, ts, r.err)
    /\ UNCHANGED <<ctx, s_transaction_id, thread>>

AsciiRxProcessBurst(chars, ts) ==
    /\ call = NoCall /\ rx.kind = "ascii"
    /\ \E pre \in { ascii_rx_feed(rx, chars, 1, Len(chars) - 1, ts) } :
       \E r \in { modbus_ascii_rx_process_char(pre, chars[Len(chars)], ts) } :
        /\ rx' = r.ctx
        /\ call' = RxReturned("ascii_process_char", pre, chars[Len(chars)], ts, r.err)
    /\ UNCHANGED <<ctx, s_transaction_id, thread>>

AsciiRxReset ==
    /\ call = NoCall /\ rx.kind = "ascii"
    /\ rx' = modbus_ascii_rx_reset(rx)
    /\ call' = RxReturned("ascii_reset", rx, << >>, << >>, "OK")
    /\ UNCHANGED <<ctx, s_transaction_id, thread>>

AsciiRxIsTimeout(ts) ==
    /\ call = NoCall /\ rx.kind = "ascii"
    /\ rx' = rx
    /\ call' = RxReturned("ascii_is_timeout", rx, << >>, ts,
                          modbus_ascii_rx_is_timeout(rx, ts))
    /\ UNCHANGED <<ctx, s_transaction_id, thread>>

TcpRxProcessData(data, ts) ==
    /\ call = NoCall /\ rx.kind = "tcp"
    /\ data # << >>
    /\ Len(data) <= MODBUS_TCP_MBAP_SIZE =>
            rx.index < MaxStepIndex + MODBUS_TCP_MBAP_SIZE
    /\ \E r \in { modbus_tcp_rx_process_data(rx, data, ts) } :
        /\ rx' = r.ctx
        /\ call' = RxReturned("tcp_process_data", rx, data, ts, r.err)
    /\ UNCHANGED <<ctx, s_transaction_id, thread>>

TcpRxReset ==
    /\ call = NoCall /\ rx.kind = "tcp"
    /\ rx' = modbus_tcp_rx_reset(rx)
    /\ call' = RxReturned("tcp_reset", rx, << >>, << >>, "OK")
    /\ UNCHANGED <<ctx, s_transaction_id, thread>>

TcpRxIsTimeout(ts) ==
    /\ call = NoCall /\ rx.kind = "tcp"
    /\ rx' = rx
    /\ call' = RxReturned("tcp_is_timeout", rx, << >>, ts,
                          modbus_tcp_rx_is_timeout(rx, ts))
    /\ UNCHANGED <<ctx, s_transaction_id, thread>>

\* the get_frame functions read the context; the call holds the value
\* returned and the frame handed out
RtuRxGetFrame ==
    /\ call = NoCall /\ rx.kind = "rtu"
    /\ \E r \in { modbus_rtu_rx_get_frame(rx) } :
        call' = [op |-> "rtu_get_frame", pre |-> rx, result |-> r.err,
                 frame |-> r.frame]
    /\ UNCHANGED <<ctx, rx, s_transaction_id, thread>>

AsciiRxGetFrame ==
    /\ call = NoCall /\ rx.kind = "ascii"
    /\ \E r \in { modbus_ascii_rx_get_frame(rx) } :
        call' = [op |-> "ascii_get_frame", pre |-> rx, result |-> r.err,
                 frame |-> r.frame]
    /\ UNCHANGED <<ctx, rx, s_transaction_id, thread>>

TcpRxGetFrame ==
    /\ call = NoCall /\ rx.kind = "tcp"
    /\ \E r \in { modbus_tcp_rx_get_frame(rx) } :
        call' = [op |-> "tcp_get_frame", pre |-> rx, result |-> r.err,
                 frame |-> r.frame]
    /\ UNCHANGED <<ctx, rx, s_transaction_id, thread>>

NextRx ==
    \/ \E b \in RtuBytes(rx), ts \in RtuTimes(rx) : RtuRxProcessByte(b, ts)
    \/ \E bs \in RtuBursts, ts \in RtuTimes(rx) : RtuRxProcessBurst(bs, ts)
    \/ \E ts \in RtuTimes(rx) : RtuRxIsComplete(ts)
    \/ RtuRxReset
    \/ \E ch \in AsciiChars(rx), ts \in RxTimesMs(rx) : AsciiRxProcessChar(ch, ts)
    \/ \E chs \in AsciiBursts, ts \in RxTimesMs(rx) : AsciiRxProcessBurst(chs, ts)
    \/ AsciiRxReset
    \/ \E ts \in RxTimesMs(rx) : AsciiRxIsTimeout(ts)
    \/ \E st \in TcpStreams, n \in TcpChunkLengths, ts \in RxTimesMs(rx) :
            TcpRxProcessData(TcpChunk(st, rx, n), ts)
    \/ TcpRxReset
    \/ \E ts \in RxTimesMs(rx) : TcpRxIsTimeout(ts)
    \/ RtuRxGetFrame
    \/ AsciiRxGetFrame
    \/ TcpRxGetFrame
    \/ Deliver

SpecRx == InitRx /\ [][NextRx]_vars

(***************************************************************************)
(* The application's Modbus TCP server (modbus_task.c).  The callbacks are *)
(* those of CallbackBehaviours; the arrays that modbus_process_request     *)
(* keeps on its stack are not initialized and hold indeterminate in every  *)
(* element when the function is entered.                                   *)
(***************************************************************************)
MODBUS_UNIT_ID == 1
MODBUS_TCP_MAX_ADU_SIZE == 260

\* yields [err, response, calls]: the value returned, the frame written to
\* response (response_len is its length; empty when none was built) and the
\* callback invocations made
modbus_process_request(request, cb, indeterminate) ==
    LET parsed == modbus_tcp_parse_frame(request)
        request_adu == parsed.adu
        pdu == request_adu.pdu
        fc == pdu.function_code
        zeroed == [function_code |-> 0, data |-> << >>]
        Handled(err, exception, response_pdu, calls) ==
            [err |-> err, exception |-> exception, pdu |-> response_pdu,
             calls |-> calls]
        Answer(d, enc, inv) ==
            IF cb.exc = MODBUS_EXCEPTION_NONE
            THEN Handled(enc.err, cb.exc,
                         IF enc.err = "OK" THEN enc.pdu ELSE zeroed, << inv >>)
            ELSE Handled(d.err, cb.exc, zeroed, << inv >>)
        ReadBits(fn) ==
            LET d == modbus_pdu_decode_read_bits_request(pdu)
                coil_values == Fill(256, indeterminate)
                stored == modbus_cb_read_bits(cb, d.quantity, coil_values)
            IN  IF d.err # "OK"
                THEN Handled(d.err, MODBUS_EXCEPTION_NONE, zeroed, << >>)
                ELSE Answer(d,
                            modbus_pdu_encode_read_bits_response(fc, stored,
                                                                 d.quantity),
                            Invocation(fn, d.start_address, d.quantity, -1,
                                       coil_values, cb))
        ReadRegisters(fn) ==
            LET d == modbus_pdu_decode_read_registers_request(pdu)
                register_values == Fill(125, indeterminate * 257)
                stored == modbus_cb_read_registers(cb, d.quantity, register_values)
            IN  IF d.err # "OK"
                THEN Handled(d.err, MODBUS_EXCEPTION_NONE, zeroed, << >>)
                ELSE Answer(d,
                            modbus_pdu_encode_read_registers_response(fc, stored,
                                                                      d.quantity),
                            Invocation(fn, d.start_address, d.quantity, -1,
                                       << >>, cb))
        WriteSingle(fn, d) ==
            IF d.err # "OK"
            THEN Handled(d.err, MODBUS_EXCEPTION_NONE, zeroed, << >>)
            ELSE Answer(d,
                        modbus_pdu_encode_write_single_response(
                            fc, d.start_address,
                            IF fc = MODBUS_FC_WRITE_SINGLE_REGISTER THEN d.value
                            ELSE IF d.value = 1 THEN 65280 ELSE 0),
                        Invocation(fn, d.start_address, -1, d.value, << >>, cb))
        WriteMultiple(fn, d) ==
            IF d.err # "OK"
            THEN Handled(d.err, MODBUS_EXCEPTION_NONE, zeroed, << >>)
            ELSE Answer(d,
                        modbus_pdu_encode_write_multiple_response(
                            fc, d.start_address, d.quantity),
                        Invocation(fn, d.start_address, d.quantity, -1,
                                   IF fc = MODBUS_FC_WRITE_MULTIPLE_REGISTERS
                                   THEN SubSeq(d.values, 1, d.quantity)
                                   ELSE d.values, cb))
        handled ==
            CASE fc = MODBUS_FC_READ_COILS -> ReadBits("read_coils")
              [] fc = MODBUS_FC_READ_DISCRETE_INPUTS ->
                    ReadBits("read_discrete_inputs")
              [] fc = MODBUS_FC_READ_HOLDING_REGISTERS ->
                    ReadRegisters("read_holding_registers")
              [] fc = MODBUS_FC_READ_INPUT_REGISTERS ->
                    ReadRegisters("read_input_registers")
              [] fc = MODBUS_FC_WRITE_SINGLE_COIL ->
                    WriteSingle("write_single_coil",
                                modbus_pdu_decode_write_single_coil_request(pdu))
              [] fc = MODBUS_FC_WRITE_SINGLE_REGISTER ->
                    WriteSingle("write_single_register",
                                modbus_pdu_decode_write_single_register_request(pdu))
              [] fc = MODBUS_FC_WRITE_MULTIPLE_COILS ->
                    WriteMultiple("write_multiple_coils",
                                  modbus_pdu_decode_write_multiple_coils_request(pdu))
              [] fc = MODBUS_FC_WRITE_MULTIPLE_REGISTERS ->
                    WriteMultiple("write_multiple_registers",
                                  modbus_pdu_decode_write_multiple_registers_request(
                                      pdu, Fill(123, indeterminate * 257), 123))
              [] OTHER -> Handled("OK", MODBUS_EXCEPTION_ILLEGAL_FUNCTION, zeroed,
                                  << >>)
        exception == IF handled.exception # MODBUS_EXCEPTION_NONE
                     THEN modbus_pdu_encode_exception(fc, handled.exception)
                     ELSE [err |-> handled.err, pdu |-> handled.pdu]
        response_adu == [transaction_id |-> request_adu.transaction_id,
                         protocol_id |-> 0, unit_id |-> MODBUS_UNIT_ID,
                         pdu |-> exception.pdu]
        built == modbus_tcp_build_frame(response_adu, MODBUS_TCP_MAX_ADU_SIZE)
    IN  IF parsed.err # "OK"
        THEN [err |-> parsed.err, response |-> << >>, calls |-> << >>]
        ELSE IF request_adu.unit_id # 0 /\ request_adu.unit_id # MODBUS_UNIT_ID
        THEN [err |-> "INVALID_PARAM", response |-> << >>, calls |-> << >>]
        ELSE IF exception.err # "OK"
        THEN [err |-> exception.err, response |-> << >>, calls |-> handled.calls]
        ELSE [err |-> built.err, response |-> built.frame, calls |-> handled.calls]

(***************************************************************************)
(* Frame functions and transaction ids: inputs and state machines          *)
(***************************************************************************)
\* ADUs with PDU data of length 0, 4, 251 and 252 (the longest a
\* modbus_pdu_t holds); the bytes of the long ones differ from one another
\* in both nibbles
FrameAdus ==
    { [unit_id |-> u, pdu |-> [function_code |-> fc, data |-> d],
       transaction_id |-> t, protocol_id |-> q] :
        u \in {0, 1, 255}, fc \in {3, 131},
        d \in { << >>, << 1, 172, 0, 2 >>,
                [i \in 1 .. MODBUS_MAX_PDU_SIZE - 2 |-> (i * 37) % 256],
                [i \in 1 .. MODBUS_MAX_PDU_SIZE - 1 |-> (i * 37) % 256] },
        t \in {0, 4660, 65535}, q \in {0, 1} }

\* frames handed to modbus_tcp_parse_frame: 7 to 261 bytes, protocol id 0 and
\* 1, a length field that is frame_length - 6, one less, one more and ten more
TcpParseFrames ==
    { TcpFrame(4660, q, Len(p) + 1 + d, 1, p) :
        q \in {0, 1}, d \in {-1, 0, 1, 10},
        p \in { << >>, << 3 >>, << 3, 1, 172, 0, 2 >>,
                Fill(MODBUS_MAX_PDU_SIZE, 3), Fill(MODBUS_MAX_PDU_SIZE + 1, 3) } }

\* what modbus_binary_to_ascii may read at binary_buffer[binary_len - 1] after
\* modbus_ascii_build_frame stored the LRC there: the array element when the
\* index is inside the array (beyond is not read, 0 stands for it); the LRC
\* or another byte when the store was one element past the array
StagingOutcomes(adu) ==
    IF 1 + 1 + Len(adu.pdu.data) < MODBUS_ASCII_MAX_BINARY_LEN THEN {0}
    ELSE LET lrc == modbus_lrc(<< adu.unit_id, adu.pdu.function_code >>
                               \o adu.pdu.data)
         IN  {lrc, Uint8(lrc + 1), 0, 255}

TransactionIds == {0, 1, 4660, 65534, 65535}

\* modbus_tcp_get_next_transaction_id is called while the counter is fewer
\* than this many calls past one of TransactionIds
MaxTransactionIdCalls == 8

Threads == {1, 2}

\* call after a frame function returned: the ADU or frame and the buffer size
\* passed, the value returned and the frame or ADU written (and, for
\* modbus_ascii_build_frame, the index its LRC byte was stored at)
FrameReturned(op, input, size, result, output) ==
    [op |-> op, input |-> input, size |-> size, result |-> result,
     output |-> output]

InitFrame ==
    /\ ctx = modbus_init([unit_id |-> 0])
    /\ call = NoCall
    /\ rx = NoRx
    /\ s_transaction_id = 0
    /\ thread = NoThread

RtuBuildFrame(adu, frame_size) ==
    /\ call = NoCall
    /\ \E r \in { modbus_rtu_build_frame(adu, frame_size) } :
        call' = FrameReturned("rtu_build_frame", adu, frame_size, r.err, r.frame)
    /\ UNCHANGED <<ctx, rx, s_transaction_id, thread>>

AsciiBuildFrame(adu, frame_size) ==
    /\ call = NoCall
    /\ \E beyond \in StagingOutcomes(adu) :
       \E r \in { modbus_ascii_build_frame(adu, frame_size, beyond) } :
        call' = [op |-> "ascii_build_frame", input |-> adu, size |-> frame_size,
                 result |-> r.err, output |-> r.frame,
                 lrc_index |-> r.lrc_index]
    /\ UNCHANGED <<ctx, rx, s_transaction_id, thread>>

TcpBuildFrame(adu, frame_size) ==
    /\ call = NoCall
    /\ \E r \in { modbus_tcp_build_frame(adu, frame_size) } :
        call' = FrameReturned("tcp_build_frame", adu, frame_size, r.err, r.frame)
    /\ UNCHANGED <<ctx, rx, s_transaction_id, thread>>

TcpParseFrame(frame) ==
    /\ call = NoCall
    /\ \E r \in { modbus_tcp_parse_frame(frame) } :
        call' = FrameReturned("tcp_parse_frame", frame, Len(frame), r.err, r.adu)
    /\ UNCHANGED <<ctx, rx, s_transaction_id, thread>>

PduSerialize(pdu, buffer_size) ==
    /\ call = NoCall
    /\ \E r \in { modbus_pdu_serialize(pdu, buffer_size) } :
        call' = FrameReturned("pdu_serialize", pdu, buffer_size, r.err, r.bytes)
    /\ UNCHANGED <<ctx, rx, s_transaction_id, thread>>

PduDeserialize(buffer, length) ==
    /\ call = NoCall
    /\ \E r \in { modbus_pdu_deserialize(buffer, length) } :
        call' = FrameReturned("pdu_deserialize", buffer, length, r.err, r.pdu)
    /\ UNCHANGED <<ctx, rx, s_transaction_id, thread>>

NextFrame ==
    \/ \E a \in FrameAdus,
          n \in {MODBUS_RTU_MIN_FRAME_SIZE, MODBUS_RTU_MAX_FRAME_SIZE} :
            RtuBuildFrame(a, n)
    \/ \E a \in FrameAdus,
          n \in {MODBUS_ASCII_MIN_FRAME_LEN, MODBUS_ASCII_MAX_FRAME_LEN} :
            AsciiBuildFrame(a, n)
    \/ \E a \in FrameAdus,
          n \in {MODBUS_TCP_MIN_FRAME_SIZE, MODBUS_TCP_MAX_FRAME_SIZE} :
            TcpBuildFrame(a, n)
    \/ \E f \in TcpParseFrames : TcpParseFrame(f)
    \/ \E a \in FrameAdus, n \in {1, 5, MODBUS_MAX_PDU_SIZE} :
            PduSerialize(a.pdu, n)
    \/ \E n \in {0, 1, 5, MODBUS_MAX_PDU_SIZE, MODBUS_MAX_PDU_SIZE + 1,
                  MODBUS_TCP_MAX_FRAME_SIZE} :
       \E fc \in {3, 131} :
            PduDeserialize([i \in 1 .. n |-> IF i = 1 THEN fc ELSE (i * 37) % 256],
                           n)
    \/ Deliver

SpecFrame == InitFrame /\ [][NextFrame]_vars

\* one pass of the loop of modbus_handle_connection in which netconn_recv
\* delivered data (len > 0 bytes): the request is copied to s_rx_buffer and
\* processed, and the response is written to the connection when
\* modbus_process_request returned MODBUS_OK.  The call holds the bytes
\* received, the value returned, the callback invocations, and what
\* netconn_write was given (written is TRUE when it was called).
ModbusHandleConnection(data, cb) ==
    /\ call = NoCall
    /\ Len(data) > 0
    /\ \E indeterminate \in {0, 255} :
       \E r \in { modbus_process_request(
                     SubSeq(data, 1, Min(Len(data), MODBUS_TCP_MAX_ADU_SIZE)),
                     cb, indeterminate) } :
        call' = [op |-> "handle_connection", input |-> data, result |-> r.err,
                 calls |-> r.calls, written |-> r.err = "OK",
                 output |-> IF r.err = "OK" THEN r.response ELSE << >>]
    /\ UNCHANGED <<ctx, rx, s_transaction_id, thread>>

\* requests for unit 0, 1 and 2 with a known and an unknown protocol id, and
\* one that is longer than s_rx_buffer (a read of 2 registers followed by
\* zeros).  The quantities are such that what a callback stores fits the
\* array it is handed: the callbacks of modbus_device_callbacks.c answer a
\* range outside the device's data points with an exception.
NextApp ==
    \/ \E a \in RequestAdus, cb \in CallbackBehaviours :
            ModbusHandleConnection(
                TcpFrame(a.transaction_id, a.protocol_id, 2 + Len(a.pdu.data),
                         a.unit_id, << a.pdu.function_code >> \o a.pdu.data),
                cb)
    \/ \E cb \in CallbackBehaviours :
            ModbusHandleConnection(
                TcpFrame(4660, 0, 254, 1,
                         << 3, 1, 172, 0, 2 >> \o Fill(MODBUS_MAX_PDU_SIZE - 4, 0)),
                cb)
    \/ Deliver

SpecApp == InitFrame /\ [][NextApp]_vars

\* call after a transaction-id function returned: the counter before the
\* call, the id passed and the id returned (-1: none)
GetNextTransactionId ==
    /\ call = NoCall
    /\ \E v \in TransactionIds :
            Uint16(s_transaction_id - v) < MaxTransactionIdCalls
    /\ \E r \in { modbus_tcp_get_next_transaction_id(s_transaction_id) } :
        /\ s_transaction_id' = r.s_transaction_id
        /\ call' = [op |-> "get_next_transaction_id", pre |-> s_transaction_id,
                    input |-> -1, result |-> r.id]
    /\ UNCHANGED <<ctx, rx, thread>>

ResetTransactionId ==
    /\ call = NoCall
    /\ s_transaction_id' = 0
    /\ call' = [op |-> "reset_transaction_id", pre |-> s_transaction_id,
                input |-> -1, result |-> -1]
    /\ UNCHANGED <<ctx, rx, thread>>

SetTransactionId(id) ==
    /\ call = NoCall
    /\ s_transaction_id' = id
    /\ call' = [op |-> "set_transaction_id", pre |-> s_transaction_id,
                input |-> id, result |-> -1]
    /\ UNCHANGED <<ctx, rx, thread>>

NextTid ==
    \/ GetNextTransactionId
    \/ ResetTransactionId
    \/ \E id \in TransactionIds : SetTransactionId(id)
    \/ Deliver

SpecTid == InitFrame /\ [][NextTid]_vars

(***************************************************************************)
(* Two threads, each calling modbus_tcp_get_next_transaction_id once.  The *)
(* function has no lock and the counter is a plain uint16_t: a thread runs *)
(* the statements one at a time, and s_transaction_id++ is a load followed *)
(* by a store.  thread[t] is the position of thread t (pc), its local id   *)
(* and the value it loaded for the increment (-1: not set yet); call holds *)
(* the counter before the two calls.                                       *)
(***************************************************************************)
InitThreads ==
    /\ ctx = modbus_init([unit_id |-> 0])
    /\ rx = NoRx
    /\ s_transaction_id \in TransactionIds
    /\ call = [op |-> "threads", pre |-> s_transaction_id]
    /\ thread = [t \in Threads |-> [pc |-> "called", id |-> -1, value |-> -1]]

\* uint16_t id = s_transaction_id;
ThreadReadId(t) ==
    /\ thread[t].pc = "called"
    /\ thread' = [thread EXCEPT ![t].id = s_transaction_id,
                                ![t].pc = "incrementing"]
    /\ UNCHANGED <<ctx, call, rx, s_transaction_id>>

\* s_transaction_id++: the load
ThreadLoad(t) ==
    /\ thread[t].pc = "incrementing"
    /\ thread' = [thread EXCEPT ![t].value = s_transaction_id,
                                ![t].pc = "loaded"]
    /\ UNCHANGED <<ctx, call, rx, s_transaction_id>>

\* s_transaction_id++: the store
ThreadStore(t) ==
    /\ thread[t].pc = "loaded"
    /\ s_transaction_id' = Uint16(thread[t].value + 1)
    /\ thread' = [thread EXCEPT ![t].pc = "returning"]
    /\ UNCHANGED <<ctx, call, rx>>

\* return id;
ThreadReturn(t) ==
    /\ thread[t].pc = "returning"
    /\ thread' = [thread EXCEPT ![t].pc = "returned"]
    /\ UNCHANGED <<ctx, call, rx, s_transaction_id>>

NextThreads ==
    \/ \E t \in Threads : ThreadReadId(t)
    \/ \E t \in Threads : ThreadLoad(t)
    \/ \E t \in Threads : ThreadStore(t)
    \/ \E t \in Threads : ThreadReturn(t)

SpecThreads == InitThreads /\ [][NextThreads]_vars

(***************************************************************************)
(* Properties.  In a state where a call has returned, call holds the       *)
(* context before the call (pre), its inputs and outputs and the callback  *)
(* invocations it made; ctx is the context after the call.                 *)
(***************************************************************************)
\* the request reached modbus_slave_process_pdu on an initialized context
Processed ==
    /\ call.op \in {"process_pdu", "process_adu"}
    /\ call.pre.initialized
    /\ call.op = "process_adu" =>
            call.request.unit_id \in {0, call.pre.config.unit_id}

\* the behaviour of the application during the call (any, if it was not called)
CallbackOfCall ==
    IF call.calls = << >>
    THEN [exc |-> 0, stores |-> FALSE, level |-> 0]
    ELSE [exc |-> call.calls[1].exc, stores |-> call.calls[1].stores,
          level |-> call.calls[1].level]

\* the exception response [fc | 0x80, code] with data_length 1
ExceptionPdu(fc, code) ==
    [function_code |-> IF fc >= 128 THEN fc ELSE fc + 128, data |-> << code >>]

RequestQuantity == call.request.pdu.data[3] * 256 + call.request.pdu.data[4]

\* C1: on an initialized context process_adu sets send_response exactly when the
\* request's unit_id equals config.unit_id and is not 0, and then a response ADU
\* has been filled
Thm_C1 ==
    (call.op = "process_adu" /\ call.pre.initialized) =>
        /\ call.send_response =
              (/\ call.request.unit_id = call.pre.config.unit_id
               /\ call.request.unit_id # 0)
        /\ call.send_response =>
              /\ call.result = "OK"
              /\ call.response.pdu.function_code # -1
              /\ call.response.unit_id # -1

Wit_C1 ==
    /\ call.op = "process_adu" /\ call.pre.initialized
    /\ call.send_response
    /\ call.calls # << >>

\* C2: a broadcast request (unit_id 0) is processed like the same request addressed
\* to this unit (same callback invocation, same context afterwards, requests + 1;
\* FC06 invokes write_single_register) but send_response is false in every case
Thm_C2 ==
    (call.op = "process_adu" /\ call.pre.initialized /\ call.request.unit_id = 0) =>
        /\ ~call.send_response
        /\ ctx.requests_processed = call.pre.requests_processed + 1
        /\ LET addressed == modbus_slave_process_adu(
                                call.pre,
                                [call.request EXCEPT !.unit_id = call.pre.config.unit_id],
                                CallbackOfCall)
           IN  /\ call.calls = addressed.calls
               /\ ctx = addressed.ctx
               /\ call.response.pdu = addressed.response.pdu
        /\ (call.request.pdu = [function_code |-> 6, data |-> <<0, 172, 0, 2>>]) =>
              /\ Len(call.calls) = 1
              /\ call.calls[1].fn = "write_single_register"
              /\ call.calls[1].start_address = 172
              /\ call.calls[1].value = 2

Wit_C2 ==
    /\ call.op = "process_adu" /\ call.pre.initialized
    /\ call.pre.config.unit_id # 0
    /\ call.request.unit_id = 0
    /\ call.request.pdu.function_code = 6
    /\ call.calls # << >> /\ call.calls[1].exc # 0

\* C3: a request for another unit returns OK with send_response false and has no
\* other effect: no callback, the context (counters, scratch buffers) unchanged,
\* the response not written
Thm_C3 ==
    (/\ call.op = "process_adu"
     /\ call.request.unit_id # 0
     /\ call.request.unit_id # call.pre.config.unit_id) =>
        /\ call.result = "OK"
        /\ ~call.send_response
        /\ call.calls = << >>
        /\ ctx = call.pre
        /\ call.response = NoAdu

Wit_C3 ==
    /\ call.op = "process_adu"
    /\ call.request.unit_id = 2
    /\ call.pre.initialized
    /\ call.pre.requests_processed > 0
    /\ call.request.pdu.function_code = 16
    /\ ctx.requests_processed = call.pre.requests_processed

\* the payload of a request with a supported function code fails decoding: too
\* short, FC05 value not 0x0000/0xFF00, FC15/FC16 byte_count inconsistent with
\* the quantity, or fewer data bytes than byte_count
MalformedRequest ==
    LET fc == call.request.pdu.function_code
        data == call.request.pdu.data
    IN  \/ fc \in 1..6 /\ Len(data) < 4
        \/ fc = 5 /\ Len(data) >= 4 /\ data[3] * 256 + data[4] \notin {0, 65280}
        \/ fc \in {15, 16} /\ Len(data) < 5
        \/ fc = 15 /\ Len(data) >= 5 /\ data[5] # (RequestQuantity + 7) \div 8
        \/ fc = 16 /\ Len(data) >= 5 /\ data[5] # RequestQuantity * 2
        \/ fc \in {15, 16} /\ Len(data) >= 5 /\ Len(data) < 5 + data[5]

\* C4: a request whose payload fails decoding yields OK with the exception
\* response [fc | 0x80, 0x03] and no callback invocation
Thm_C4 ==
    (Processed /\ MalformedRequest) =>
        /\ call.result = "OK"
        /\ call.response.pdu = ExceptionPdu(call.request.pdu.function_code, 3)
        /\ call.calls = << >>

Wit_C4 ==
    /\ Processed
    /\ call.request.pdu = [function_code |-> 5, data |-> <<0, 172, 18, 52>>]
    /\ call.response.pdu = [function_code |-> 133, data |-> <<3>>]

\* C5: a read request whose quantity is 0 or above the limit (2000 for FC01/02,
\* 125 for FC03/04) yields the exception [fc | 0x80, 0x03] and no callback
Thm_C5 ==
    (/\ Processed
     /\ call.request.pdu.function_code \in 1..4
     /\ Len(call.request.pdu.data) >= 4
     /\ \/ RequestQuantity = 0
        \/ call.request.pdu.function_code \in {1, 2} /\ RequestQuantity > 2000
        \/ call.request.pdu.function_code \in {3, 4} /\ RequestQuantity > 125) =>
        /\ call.response.pdu = ExceptionPdu(call.request.pdu.function_code, 3)
        /\ call.calls = << >>

Wit_C5 ==
    /\ Processed
    /\ call.request.pdu.function_code = 3
    /\ Len(call.request.pdu.data) >= 4
    /\ RequestQuantity = 126
    /\ call.response.pdu = [function_code |-> 131, data |-> <<3>>]

\* C6: an unsupported function code yields no callback, the response
\* [fc | 0x80, 0x01] and the exceptions counter + 1
Thm_C6 ==
    (Processed /\ call.request.pdu.function_code \notin {1, 2, 3, 4, 5, 6, 15, 16}) =>
        /\ call.calls = << >>
        /\ call.response.pdu = ExceptionPdu(call.request.pdu.function_code, 1)
        /\ ctx.exceptions_sent = call.pre.exceptions_sent + 1

Wit_C6 ==
    /\ Processed
    /\ call.request.pdu.function_code = 133
    /\ call.response.pdu = [function_code |-> 133, data |-> <<1>>]
    /\ ctx.exceptions_sent = 2

\* C7: when the invoked callback returns an exception code e other than NONE the
\* response PDU is exactly [fc | 0x80, e]
Thm_C7 ==
    (Processed /\ call.calls # << >> /\ call.calls[1].exc # 0) =>
        call.response.pdu =
            ExceptionPdu(call.request.pdu.function_code, call.calls[1].exc)

Wit_C7 ==
    /\ Processed
    /\ call.calls # << >>
    /\ call.calls[1].fn = "write_multiple_coils"
    /\ call.calls[1].exc = 4
    /\ call.response.pdu = [function_code |-> 143, data |-> <<4>>]

\* C8 (as claimed): whenever the invoked callback returns an exception the
\* exceptions counter increases by exactly 1, for write function codes too
Claim_C8 ==
    (Processed /\ call.calls # << >> /\ call.calls[1].exc # 0) =>
        ctx.exceptions_sent = call.pre.exceptions_sent + 1

\* C9: a call invokes at most one callback, only with a quantity inside the
\* function code's limit and, for FC15/FC16, with data the request carries
Thm_C9 ==
    Processed =>
        /\ Len(call.calls) <= 1
        /\ \A k \in 1..Len(call.calls) :
            LET inv == call.calls[k]
                data == call.request.pdu.data
            IN  /\ inv.fn \in {"read_coils", "read_discrete_inputs"} =>
                        inv.quantity \in 1..2000
                /\ inv.fn \in {"read_holding_registers", "read_input_registers"} =>
                        inv.quantity \in 1..125
                /\ inv.fn = "write_multiple_coils" =>
                        /\ inv.quantity \in 1..1968
                        /\ Len(inv.values) >= (inv.quantity + 7) \div 8
                        /\ Len(data) >= 5 + (inv.quantity + 7) \div 8
                /\ inv.fn = "write_multiple_registers" =>
                        /\ inv.quantity \in 1..123
                        /\ Len(data) >= 5 + 2 * inv.quantity
                        /\ Len(inv.values) = inv.quantity
                        /\ \A i \in 1..inv.quantity :
                              inv.values[i] = data[4 + 2 * i] * 256 + data[5 + 2 * i]

Wit_C9 ==
    /\ Processed
    /\ Len(call.calls) = 1
    /\ call.calls[1].fn = "write_multiple_coils"
    /\ call.calls[1].quantity = 1968
    /\ Len(call.calls[1].values) = 246

\* C10 (as claimed): the outputs of process_adu are those a freshly initialized
\* context with the same config produces for the same request and the same
\* callback behaviour, whatever requests the context handled before
Claim_C10 ==
    (call.op = "process_adu" /\ call.pre.initialized) =>
        LET fresh == modbus_slave_process_adu(modbus_init(call.pre.config),
                                              call.request, CallbackOfCall)
        IN  /\ call.result = fresh.result
            /\ call.send_response = fresh.send_response
            /\ call.response = fresh.response

\* C11 (as claimed): the buffer handed to the read_coils / read_discrete_inputs
\* callback is zero in its first ceil(quantity / 8) bytes at the moment of the
\* call, whatever the context handled before
Claim_C11 ==
    (Processed /\ call.calls # << >>
        /\ call.calls[1].fn \in {"read_coils", "read_discrete_inputs"}) =>
        \A i \in 1..((call.calls[1].quantity + 7) \div 8) :
            call.calls[1].values[i] = 0

\* C12: when process_adu returns OK for a request addressed to this unit or to
\* broadcast, the response echoes the request's transaction_id and protocol_id
\* and carries config.unit_id
Thm_C12 ==
    (/\ call.op = "process_adu"
     /\ call.request.unit_id \in {0, call.pre.config.unit_id}
     /\ call.result = "OK") =>
        /\ call.response.transaction_id = call.request.transaction_id
        /\ call.response.protocol_id = call.request.protocol_id
        /\ call.response.unit_id = call.pre.config.unit_id

Wit_C12 ==
    /\ call.op = "process_adu"
    /\ call.result = "OK"
    /\ call.pre.config.unit_id = 1
    /\ call.request.unit_id = 0
    /\ call.request.transaction_id = 4660
    /\ call.response.unit_id = 1

\* C13 (as claimed): the FC15 decoder returns OK only if byte_count equals
\* ceil(quantity / 8), computed without truncation, and data_length is at least
\* 5 + byte_count; in every other case it returns FRAME
Claim_C13 ==
    (Processed /\ call.request.pdu.function_code = 15) =>
        LET data == call.request.pdu.data
            d == modbus_pdu_decode_write_multiple_coils_request(call.request.pdu)
            well_formed == /\ Len(data) >= 5
                           /\ data[5] = (RequestQuantity + 7) \div 8
                           /\ Len(data) >= 5 + data[5]
        IN  d.err = IF well_formed THEN "OK" ELSE "FRAME"

\* C14: no process_pdu / process_adu call decreases the requests, errors or
\* exceptions counter, and reset_statistics on an initialized context sets all
\* three to 0
Thm_C14 ==
    /\ call.op \in {"process_pdu", "process_adu"} =>
            /\ ctx.requests_processed >= call.pre.requests_processed
            /\ ctx.errors_count >= call.pre.errors_count
            /\ ctx.exceptions_sent >= call.pre.exceptions_sent
    /\ (call.op = "reset_statistics" /\ call.pre.initialized) =>
            /\ ctx.requests_processed = 0
            /\ ctx.errors_count = 0
            /\ ctx.exceptions_sent = 0

Wit_C14 ==
    /\ call.op = "reset_statistics"
    /\ call.pre.initialized
    /\ call.pre.requests_processed = 2
    /\ call.pre.exceptions_sent = 2
    /\ ctx.exceptions_sent = 0

\* C15: on a context whose initialized flag is clear, process_pdu and (for a
\* request that passes the unit filter) process_adu return NOT_INITIALIZED,
\* invoke no callback, leave send_response false and change nothing in the
\* context; deinit returns NOT_INITIALIZED; init yields IDLE with the three
\* counters 0
Thm_C15 ==
    /\ (/\ call.op \in {"process_pdu", "process_adu"}
        /\ ~call.pre.initialized
        /\ call.op = "process_adu" =>
                call.request.unit_id \in {0, call.pre.config.unit_id}) =>
            /\ call.result = "NOT_INITIALIZED"
            /\ call.calls = << >>
            /\ ~call.send_response
            /\ ctx = call.pre
    /\ (call.op = "deinit" /\ ~call.pre.initialized) =>
            /\ call.result = "NOT_INITIALIZED"
            /\ ctx = call.pre
    /\ (call.op = "init" /\ ~call.pre.initialized) =>
            /\ ctx.initialized
            /\ ctx.state = "IDLE"
            /\ ctx.requests_processed = 0
            /\ ctx.errors_count = 0
            /\ ctx.exceptions_sent = 0

Wit_C15 ==
    /\ call.op = "process_adu"
    /\ ~call.pre.initialized
    /\ call.pre.exceptions_sent > 0
    /\ call.request.unit_id = 0
    /\ call.result = "NOT_INITIALIZED"

(***************************************************************************)
(* Receiver properties.  In a state where a receiver function has          *)
(* returned, call holds the context before the call (pre), the byte,       *)
(* character or chunk (input) and the timestamp (time) passed and the      *)
(* value returned (result); rx is the context after the call.              *)
(***************************************************************************)
\* the time from the last byte of the RTU frame to the timestamp of the call
\* (modulo 2^32)
RtuGap == Sub32(call.time, call.pre.last_byte_time)

\* the request 01 03 01AC 0002 as an RTU frame (CRC low byte first), as an
\* ASCII frame ":010301AC00024D" CR LF and as a TCP frame
RtuRequestFrame == << 1, 3, 1, 172, 0, 2, 5, 214 >>
AsciiRequestFrame ==
    << 58, 48, 49, 48, 51, 48, 49, 65, 67, 48, 48, 48, 50, 52, 68, 13, 10 >>
TcpRequestFrame == TcpFrame(4660, 0, 6, 1, << 3, 1, 172, 0, 2 >>)

Thm_C17 ==
    (call.op = "rtu_is_complete" /\ call.pre.state = "RECEIVING") =>
        IF ~Lt32(RtuGap, U32(call.pre.interframe_delay_us))
        THEN /\ call.result = (call.pre.index >= 4)
             /\ rx = [call.pre EXCEPT
                        !.state = IF call.pre.index >= 4 THEN "COMPLETE" ELSE "ERROR"]
        ELSE /\ call.result = FALSE
             /\ rx = call.pre

Wit_C17 ==
    /\ call.op = "rtu_is_complete"
    /\ call.pre.state = "RECEIVING"
    /\ call.pre.index = 3
    /\ RtuGap = U32(call.pre.interframe_delay_us)
    /\ rx.state = "ERROR"

\* C18: in COMPLETE or ERROR a byte, character or chunk changes nothing in the
\* receiver; reset gives the initial state with index 0, from which the request
\* frame is received to COMPLETE
Thm_C18 ==
    /\ (/\ call.op \in {"rtu_process_byte", "ascii_process_char", "tcp_process_data"}
        /\ call.pre.state \in {"COMPLETE", "ERROR"}) =>
            rx = call.pre
    /\ call.op = "rtu_reset" =>
            /\ rx.state = "IDLE" /\ rx.index = 0 /\ rx.buffer = << >>
            /\ \A ts \in RtuTimes(rx) :
                 LET fed == rtu_rx_feed(rx, RtuRequestFrame, 1, Len(RtuRequestFrame), ts)
                     poll == modbus_rtu_rx_is_complete(
                                fed, Add32(ts, U32(rx.interframe_delay_us)))
                 IN  /\ poll.result
                     /\ poll.ctx.state = "COMPLETE"
                     /\ poll.ctx.buffer = RtuRequestFrame
    /\ call.op = "ascii_reset" =>
            /\ rx.state = "IDLE" /\ rx.index = 0 /\ rx.buffer = << >>
            /\ \A ts \in RxTimesMs(rx) :
                 LET fed == ascii_rx_feed(rx, AsciiRequestFrame, 1,
                                          Len(AsciiRequestFrame), ts)
                 IN  fed.state = "COMPLETE" /\ fed.buffer = AsciiRequestFrame
    /\ call.op = "tcp_reset" =>
            /\ rx.state = "HEADER" /\ rx.index = 0 /\ rx.buffer = << >>
            /\ \A ts \in RxTimesMs(rx) :
                 LET r == modbus_tcp_rx_process_data(rx, TcpRequestFrame, ts)
                 IN  /\ r.err = "OK"
                     /\ r.ctx.state = "COMPLETE"
                     /\ r.ctx.buffer = TcpRequestFrame

Wit_C18 ==
    /\ call.op = "tcp_reset"
    /\ call.pre.state = "COMPLETE"
    /\ call.pre.expected_length > 7
    /\ rx.state = "HEADER"

\* C19: the RTU receiver never holds more than 256 bytes and the ASCII receiver
\* never more than 513 characters; a byte or character that would be stored
\* beyond that is not stored, moves the receiver to ERROR and returns
\* BUFFER_OVERFLOW
Thm_C19 ==
    /\ rx.kind = "rtu" => rx.index <= 256 /\ Len(rx.buffer) <= 256
    /\ rx.kind = "ascii" => rx.index <= 513 /\ Len(rx.buffer) <= 513
    /\ (/\ call.op = "rtu_process_byte"
        /\ call.pre.state = "RECEIVING"
        /\ call.pre.index = 256
        /\ ~Lt32(U32(call.pre.interchar_timeout_us), RtuGap)) =>
            /\ call.result = "BUFFER_OVERFLOW"
            /\ rx.state = "ERROR"
            /\ rx.buffer = call.pre.buffer /\ rx.index = 256
    /\ (/\ call.op = "ascii_process_char"
        /\ call.pre.index = 513
        /\ \/ call.pre.state = "RECEIVING" /\ call.input # 58
           \/ call.pre.state = "CR_RECEIVED" /\ call.input = 10) =>
            /\ call.result = "BUFFER_OVERFLOW"
            /\ rx.state = "ERROR"
            /\ rx.buffer = call.pre.buffer /\ rx.index = 513

Wit_C19 ==
    /\ call.op = "rtu_process_byte"
    /\ call.pre.state = "RECEIVING"
    /\ call.pre.index = 256
    /\ call.result = "BUFFER_OVERFLOW"
    /\ rx.state = "ERROR"

\* C20: in IDLE, RECEIVING and CR_RECEIVED the character ':' gives state
\* RECEIVING with buffer = [':'], index 1 and start_time = the timestamp; in
\* IDLE any other character changes nothing
Thm_C20 ==
    call.op = "ascii_process_char" =>
        /\ (call.pre.state \in {"IDLE", "RECEIVING", "CR_RECEIVED"}
                /\ call.input = 58) =>
                /\ call.result = "OK"
                /\ rx = [call.pre EXCEPT !.state = "RECEIVING", !.buffer = << 58 >>,
                                         !.index = 1, !.start_time = call.time]
        /\ (call.pre.state = "IDLE" /\ call.input # 58) =>
                /\ call.result = "OK"
                /\ rx = call.pre

Wit_C20 ==
    /\ call.op = "ascii_process_char"
    /\ call.pre.state = "CR_RECEIVED"
    /\ call.pre.index > 2
    /\ call.input = 58
    /\ call.time # call.pre.start_time
    /\ rx.index = 1

\* C21: the ASCII receiver enters COMPLETE only from CR_RECEIVED on the
\* character LF; in CR_RECEIVED a character other than LF and ':' moves it to
\* ERROR and the call returns FRAME
Thm_C21 ==
    (rx.kind = "ascii" /\ call # NoCall) =>
        /\ (rx.state = "COMPLETE" /\ call.pre.state # "COMPLETE") =>
                /\ call.op = "ascii_process_char"
                /\ call.pre.state = "CR_RECEIVED"
                /\ call.input = MODBUS_ASCII_END_LF
        /\ (/\ call.op = "ascii_process_char"
            /\ call.pre.state = "CR_RECEIVED"
            /\ call.input \notin {MODBUS_ASCII_END_LF, MODBUS_ASCII_START_CHAR}) =>
                /\ rx.state = "ERROR"
                /\ call.result = "FRAME"

Wit_C21 ==
    /\ call.op = "ascii_process_char"
    /\ call.pre.state = "CR_RECEIVED"
    /\ call.input = MODBUS_ASCII_END_LF
    /\ call.result = "OK"
    /\ rx.state = "COMPLETE"
    /\ rx.buffer = Append(call.pre.buffer, MODBUS_ASCII_END_LF)

\* the time from the start of the frame to the timestamp of the call (modulo
\* 2^32) is at least the receiver's timeout
RxTimedOut ==
    ~Lt32(Sub32(call.time, call.pre.start_time), U32(call.pre.timeout_ms))

\* C22: modbus_ascii_rx_is_timeout returns true in RECEIVING, CR_RECEIVED,
\* COMPLETE and ERROR whenever now - start_time >= timeout, and false in IDLE
Claim_C22 ==
    call.op = "ascii_is_timeout" =>
        /\ (call.pre.state # "IDLE" /\ RxTimedOut) => call.result = TRUE
        /\ call.pre.state = "IDLE" => call.result = FALSE

\* C23: when is_timeout returns true on an ASCII or TCP receiver, the receiver
\* is in ERROR after the call
Claim_C23 ==
    (call.op \in {"ascii_is_timeout", "tcp_is_timeout"} /\ call.result = TRUE) =>
        rx.state = "ERROR"

\* the bytes of the connection that the TCP receiver was given since its
\* reset, when the call began in HEADER or PDU (no byte is dropped before
\* COMPLETE or ERROR)
TcpFed == call.pre.buffer \o call.input

\* C24: the header is validated when the 7th byte is buffered: protocol id
\* # 0 or length field outside 2..254 gives ERROR and FRAME; otherwise
\* expected_length = 6 + length field (at most 260), the state is PDU while
\* fewer bytes than that are buffered and COMPLETE once that many are
Thm_C24 ==
    /\ rx.kind = "tcp" =>
            /\ rx.state = "HEADER" => rx.index < 7 /\ rx.expected_length = 7
            /\ rx.state = "PDU" =>
                    7 <= rx.index /\ rx.index < rx.expected_length
            /\ rx.state = "COMPLETE" => rx.index = rx.expected_length
            /\ rx.expected_length <= 260
            /\ Len(rx.buffer) = rx.index
    /\ (call.op = "tcp_process_data" /\ call.pre.state = "HEADER") =>
            IF Len(TcpFed) < 7
            THEN /\ call.result = "OK"
                 /\ rx.state = "HEADER" /\ rx.buffer = TcpFed
            ELSE LET protocol_id == TcpFed[3] * 256 + TcpFed[4]
                     length == TcpFed[5] * 256 + TcpFed[6]
                 IN  IF protocol_id # 0 \/ length < 2 \/ length > 254
                     THEN /\ call.result = "FRAME"
                          /\ rx.state = "ERROR"
                          /\ rx.buffer = SubSeq(TcpFed, 1, 7)
                     ELSE /\ call.result = "OK"
                          /\ rx.expected_length = 6 + length
                          /\ rx.buffer = SubSeq(TcpFed, 1, Min(Len(TcpFed), 6 + length))
                          /\ rx.state = IF Len(TcpFed) >= 6 + length
                                        THEN "COMPLETE" ELSE "PDU"
    /\ (call.op = "tcp_process_data" /\ call.pre.state = "PDU") =>
            /\ call.result = "OK"
            /\ rx.expected_length = call.pre.expected_length
            /\ rx.buffer = SubSeq(TcpFed, 1, Min(Len(TcpFed), rx.expected_length))
            /\ rx.state = IF Len(TcpFed) >= rx.expected_length
                          THEN "COMPLETE" ELSE "PDU"

Wit_C24 ==
    /\ call.op = "tcp_process_data"
    /\ call.pre.state = "HEADER"
    /\ call.pre.index = 6
    /\ Len(call.input) = 1
    /\ rx.state = "PDU"
    /\ rx.index = 7
    /\ rx.expected_length = 260

\* what C25 compares of a TCP receiver context
TcpRxView(c) == << c.state, c.buffer, c.index, c.expected_length >>

\* C25: the bytes fed to a TCP receiver since its reset leave it with the same
\* state, buffer, index and expected length whether they came in the chunks
\* of this behaviour, in one chunk, in two chunks split anywhere or one byte
\* per call
Thm_C25 ==
    (call.op = "tcp_process_data" /\ call.pre.state \in {"HEADER", "PDU"}) =>
        LET fresh == modbus_tcp_rx_reset(call.pre)
            whole == modbus_tcp_rx_process_data(fresh, TcpFed, call.time).ctx
        IN  /\ TcpRxView(rx) = TcpRxView(whole)
            /\ TcpRxView(tcp_rx_feed(fresh, TcpFed, 1, Len(TcpFed), call.time))
                    = TcpRxView(whole)
            /\ \A k \in 1 .. Len(TcpFed) - 1 :
                  LET head == modbus_tcp_rx_process_data(
                                  fresh, SubSeq(TcpFed, 1, k), call.time).ctx
                      both == modbus_tcp_rx_process_data(
                                  head, SubSeq(TcpFed, k + 1, Len(TcpFed)),
                                  call.time).ctx
                  IN  TcpRxView(both) = TcpRxView(whole)

Wit_C25 ==
    /\ call.op = "tcp_process_data"
    /\ call.pre.state = "PDU"
    /\ call.pre.index = 8
    /\ Len(call.input) > 4
    /\ rx.state = "COMPLETE"
    /\ rx.index = 12

(***************************************************************************)
(* Frame and transaction-id properties.  In a state where a frame function *)
(* has returned, call holds its arguments (input, size), the value         *)
(* returned (result) and what it wrote (output).                           *)
(***************************************************************************)
\* C26: modbus_tcp_parse_frame returns OK exactly for a frame of 8 to 260
\* bytes with protocol id 0 whose length field is frame_length - 6, and FRAME
\* for every other frame; on OK the ADU has the transaction id and unit id of
\* the header and a PDU of length - 1 bytes
Thm_C26 ==
    call.op = "tcp_parse_frame" =>
        LET frame == call.input
            frame_length == Len(frame)
            length == frame[5] * 256 + frame[6]
            accepted == /\ 8 <= frame_length /\ frame_length <= 260
                        /\ frame[3] = 0 /\ frame[4] = 0
                        /\ length = frame_length - 6
        IN  /\ call.result = IF accepted THEN "OK" ELSE "FRAME"
            /\ accepted =>
                    /\ call.output.transaction_id = frame[1] * 256 + frame[2]
                    /\ call.output.unit_id = frame[7]
                    /\ 1 + Len(call.output.pdu.data) = length - 1
                    /\ << call.output.pdu.function_code >> \o call.output.pdu.data
                            = SubSeq(frame, 8, frame_length)

Wit_C26 ==
    /\ call.op = "tcp_parse_frame"
    /\ Len(call.input) = 260
    /\ call.result = "OK"
    /\ Len(call.output.pdu.data) = 252

\* the id that the k-th of k successive calls of
\* modbus_tcp_get_next_transaction_id returns when the counter is counter
\* before the first
RECURSIVE TransactionIdOfCall(_, _)
TransactionIdOfCall(counter, k) ==
    LET r == modbus_tcp_get_next_transaction_id(counter)
    IN  IF counter < 0 \/ k <= 1 THEN r.id
        ELSE TransactionIdOfCall(r.s_transaction_id, k - 1)

\* C27: modbus_tcp_get_next_transaction_id returns the counter and leaves it
\* incremented modulo 2^16; after reset the k-th call returns k - 1, after
\* set(v) the next call returns v, after a call that returned 65535 the next
\* returns 0
Thm_C27 ==
    /\ s_transaction_id \in 0 .. 65535
    /\ call.op = "get_next_transaction_id" =>
            /\ call.result = call.pre
            /\ s_transaction_id = (call.pre + 1) % 65536
            /\ call.result = 65535 => TransactionIdOfCall(s_transaction_id, 1) = 0
    /\ call.op = "reset_transaction_id" =>
            \A k \in 1 .. MaxTransactionIdCalls :
                TransactionIdOfCall(s_transaction_id, k) = (k - 1) % 65536
    /\ call.op = "set_transaction_id" =>
            /\ TransactionIdOfCall(s_transaction_id, 1) = call.input
            /\ \A k \in 1 .. MaxTransactionIdCalls :
                    TransactionIdOfCall(s_transaction_id, k)
                        = (call.input + k - 1) % 65536

Wit_C27 ==
    /\ call.op = "get_next_transaction_id"
    /\ call.pre = 65535
    /\ call.result = 65535
    /\ s_transaction_id = 0

\* C28: when both threads have returned from
\* modbus_tcp_get_next_transaction_id, they returned different ids and the
\* counter is 2 (modulo 2^16) past its value before the calls
Claim_C28 ==
    (call.op = "threads" /\ \A t \in Threads : thread[t].pc = "returned") =>
        /\ thread[1].id # thread[2].id
        /\ s_transaction_id = (call.pre + 2) % 65536

\* C29: modbus_tcp_build_frame of an ADU with protocol id 0 and at most 252
\* data bytes into a 260-byte buffer returns OK, and modbus_tcp_parse_frame
\* of the frame returns OK with an ADU equal to the one built from
Thm_C29 ==
    (/\ call.op = "tcp_build_frame"
     /\ call.input.protocol_id = 0
     /\ Len(call.input.pdu.data) <= 252
     /\ call.size = 260) =>
        /\ call.result = "OK"
        /\ Len(call.output) = 8 + Len(call.input.pdu.data)
        /\ modbus_tcp_parse_frame(call.output)
                = [err |-> "OK", adu |-> call.input]

Wit_C29 ==
    /\ call.op = "tcp_build_frame"
    /\ call.input.protocol_id = 0
    /\ call.input.transaction_id = 65535
    /\ call.input.unit_id = 255
    /\ Len(call.input.pdu.data) = 252
    /\ call.size = 260
    /\ call.result = "OK"

\* C30: modbus_rtu_build_frame into 256 bytes and modbus_ascii_build_frame
\* into 513 characters of an ADU with at most 252 data bytes return OK, and
\* parsing the frame with the parser of the same protocol returns OK with the
\* unit id and PDU of that ADU and transaction id = protocol id = 0
Claim_C30 ==
    /\ (/\ call.op = "rtu_build_frame"
        /\ Len(call.input.pdu.data) <= 252
        /\ call.size = 256) =>
            /\ call.result = "OK"
            /\ modbus_rtu_parse_frame(call.output)
                    = [err |-> "OK",
                       adu |-> [call.input EXCEPT !.transaction_id = 0,
                                                  !.protocol_id = 0]]
    /\ (/\ call.op = "ascii_build_frame"
        /\ Len(call.input.pdu.data) <= 252
        /\ call.size = 513) =>
            /\ call.result = "OK"
            /\ modbus_ascii_parse_frame(call.output)
                    = [err |-> "OK",
                       adu |-> [call.input EXCEPT !.transaction_id = 0,
                                                  !.protocol_id = 0]]

\* C31: modbus_pdu_deserialize of what modbus_pdu_serialize wrote for a PDU
\* with at most 252 data bytes returns OK with the function code, data length
\* and data of that PDU; modbus_pdu_deserialize of 0 bytes returns FRAME, of
\* more than 253 bytes BUFFER_OVERFLOW
Thm_C31 ==
    /\ (/\ call.op = "pdu_serialize"
        /\ Len(call.input.data) <= 252
        /\ call.size >= 1 + Len(call.input.data)) =>
            /\ call.result = "OK"
            /\ Len(call.output) = 1 + Len(call.input.data)
            /\ LET r == modbus_pdu_deserialize(call.output, Len(call.output))
               IN  /\ r.err = "OK"
                   /\ r.pdu.function_code = call.input.function_code
                   /\ Len(r.pdu.data) = Len(call.input.data)
                   /\ r.pdu.data = call.input.data
    /\ (call.op = "pdu_deserialize" /\ call.size = 0) =>
            call.result = "FRAME"
    /\ (call.op = "pdu_deserialize" /\ call.size > 253) =>
            call.result = "BUFFER_OVERFLOW"

Wit_C31 ==
    /\ call.op = "pdu_serialize"
    /\ Len(call.input.data) = 252
    /\ call.size = 253
    /\ call.result = "OK"
    /\ call.output[253] = (252 * 37) % 256

\* C32: an entry point called with a zero-length input returns INVALID_PARAM
\* and leaves its output argument as it was; stated for modbus_pdu_deserialize
\* called with length 0
Claim_C32 ==
    (call.op = "pdu_deserialize" /\ call.size = 0) =>
        /\ call.result = "INVALID_PARAM"
        /\ call.output = NoPdu

\* C38: modbus_slave_process_pdu on an initialized context returns OK with a
\* normal or an exception response PDU whatever the request is, and the
\* errors counter is 0 in every state
Thm_C38 ==
    /\ ctx.errors_count = 0
    /\ (call.op = "process_pdu" /\ call.pre.initialized) =>
            /\ call.result = "OK"
            /\ \/ /\ call.response.pdu.function_code
                        = call.request.pdu.function_code
                  /\ Len(call.response.pdu.data) >= 1
               \/ /\ call.response.pdu.function_code
                        = BitOr(call.request.pdu.function_code, 128)
                  /\ Len(call.response.pdu.data) = 1

Wit_C38 ==
    /\ call.op = "process_pdu"
    /\ call.pre.initialized
    /\ call.pre.requests_processed = 1
    /\ call.request.pdu.function_code = MODBUS_FC_WRITE_MULTIPLE_REGISTERS
    /\ Len(call.request.pdu.data) = 4
    /\ call.result = "OK"
    /\ call.response.pdu.function_code = 144
    /\ ctx.errors_count = 0

(***************************************************************************)
(* Further receiver properties, on the call and rx of SpecRx               *)
(***************************************************************************)
\* C35: a byte that arrives in RECEIVING at least interframe_delay_us after
\* the last one, with 4 or more bytes buffered, leaves those bytes in the
\* buffer and the receiver in COMPLETE
Claim_C35 ==
    (/\ call.op = "rtu_process_byte"
     /\ call.pre.state = "RECEIVING"
     /\ call.pre.index >= MODBUS_RTU_MIN_FRAME_SIZE
     /\ ~Lt32(RtuGap, U32(call.pre.interframe_delay_us))) =>
        /\ rx.state = "COMPLETE"
        /\ rx.index = call.pre.index
        /\ rx.buffer = call.pre.buffer

\* C36: when modbus_tcp_rx_process_data returns OK every byte of the chunk is
\* in the frame buffer, after the bytes that were there before
Claim_C36 ==
    (call.op = "tcp_process_data" /\ call.result = "OK") =>
        /\ rx.index = call.pre.index + Len(call.input)
        /\ rx.buffer = call.pre.buffer \o call.input

\* C37: the frame that modbus_tcp_rx_get_frame hands out has 6 + length field
\* bytes, between 8 and 260, and protocol id 0, and modbus_tcp_parse_frame of
\* it returns OK; a TCP receiver in COMPLETE holds such a frame
Thm_C37 ==
    /\ (call.op = "tcp_get_frame" /\ call.result = "OK") =>
            /\ call.pre.state = "COMPLETE"
            /\ Len(call.frame) = 6 + tcp_read_uint16_be(call.frame, 4)
            /\ Len(call.frame) >= 8 /\ Len(call.frame) <= 260
            /\ tcp_read_uint16_be(call.frame, 2) = 0
            /\ modbus_tcp_parse_frame(call.frame).err = "OK"
    /\ (rx.kind = "tcp" /\ rx.state = "COMPLETE") =>
            /\ modbus_tcp_rx_get_frame(rx).err = "OK"
            /\ modbus_tcp_parse_frame(modbus_tcp_rx_get_frame(rx).frame).err
                    \notin {"FRAME", "BUFFER_OVERFLOW"}

Wit_C37 ==
    /\ call.op = "tcp_get_frame"
    /\ call.result = "OK"
    /\ Len(call.frame) = 260
    /\ modbus_tcp_parse_frame(call.frame).err = "OK"

\* C40: get_frame returns OK with the buffered frame in COMPLETE and
\* INVALID_STATE in every other state; a receiver in COMPLETE holds a
\* well-formed frame: RTU 4 to 256 bytes; ASCII 3 to 513 characters, ':'
\* first, CR LF last and no other ':' or CR; TCP 6 + length field bytes
Thm_C40 ==
    /\ call.op \in {"rtu_get_frame", "ascii_get_frame", "tcp_get_frame"} =>
            /\ rx = call.pre
            /\ call.result = "OK" <=> call.pre.state = "COMPLETE"
            /\ call.result # "OK" =>
                    call.result = "INVALID_STATE" /\ call.frame = << >>
            /\ call.result = "OK" =>
                    /\ call.frame = call.pre.buffer
                    /\ Len(call.frame) = call.pre.index
    /\ (rx.kind = "rtu" /\ rx.state = "COMPLETE") =>
            LET frame == modbus_rtu_rx_get_frame(rx).frame
            IN  Len(frame) >= 4 /\ Len(frame) <= 256
    /\ (rx.kind = "ascii" /\ rx.state = "COMPLETE") =>
            LET frame == modbus_ascii_rx_get_frame(rx).frame
                n == Len(frame)
            IN  /\ n >= 3 /\ n <= 513
                /\ frame[1] = MODBUS_ASCII_START_CHAR
                /\ frame[n - 1] = MODBUS_ASCII_END_CR
                /\ frame[n] = MODBUS_ASCII_END_LF
                /\ \A i \in 2 .. n - 2 :
                        frame[i] \notin {MODBUS_ASCII_START_CHAR,
                                         MODBUS_ASCII_END_CR}
    /\ (rx.kind = "tcp" /\ rx.state = "COMPLETE") =>
            LET frame == modbus_tcp_rx_get_frame(rx).frame
            IN  Len(frame) = 6 + tcp_read_uint16_be(frame, 4)

Wit_C40 ==
    /\ call.op = "ascii_get_frame"
    /\ call.result = "OK"
    /\ Len(call.frame) = 513
    /\ call.frame[1] = MODBUS_ASCII_START_CHAR
    /\ call.frame[513] = MODBUS_ASCII_END_LF

\* whether the time from last_byte_time to the timestamp of the call, counted
\* on a clock that wraps at 2^32, is more than threshold (below 2^16), for
\* timestamps in the first or last 2^16 microseconds of the clock's range:
\* the plain difference when the timestamp is the later one in the same part,
\* the time to the wrap plus the time after it when the clock wrapped in
\* between, and more than 2^31 in the remaining cases
RtuTrueGapExceeds(threshold) ==
    LET last == call.pre.last_byte_time
        ts == call.time
    IN  IF last[1] = ts[1] /\ ts[2] >= last[2]
        THEN ts[2] - last[2] > threshold
        ELSE IF last[1] = 65535 /\ ts[1] = 0
        THEN (65536 - last[2]) + ts[2] > threshold
        ELSE TRUE

\* C39: in RECEIVING, modbus_rtu_rx_process_byte starts a new frame exactly
\* when the time since the last byte, counted modulo 2^32, is more than
\* interchar_timeout_us, and modbus_rtu_rx_is_complete ends the frame exactly
\* when it is at least interframe_delay_us, also when the clock wrapped
\* between the two timestamps
Thm_C39 ==
    (/\ call.op \in {"rtu_process_byte", "rtu_is_complete"}
     /\ call.pre.state = "RECEIVING") =>
        /\ call.pre.last_byte_time[1] \in {0, 65535}
        /\ call.time[1] \in {0, 65535}
        /\ Add32(call.pre.last_byte_time, RtuGap) = call.time
        /\ call.op = "rtu_process_byte" =>
                (rx.index = 1 /\ rx.buffer = << call.input >>)
                    <=> RtuTrueGapExceeds(call.pre.interchar_timeout_us)
        /\ call.op = "rtu_is_complete" =>
                (rx.state # "RECEIVING")
                    <=> RtuTrueGapExceeds(call.pre.interframe_delay_us - 1)

Wit_C39 ==
    /\ call.op = "rtu_is_complete"
    /\ call.pre.state = "RECEIVING"
    /\ call.pre.index = 4
    /\ call.pre.last_byte_time = << 65535, 65535 >>
    /\ call.time = U32(call.pre.interframe_delay_us - 1)
    /\ call.result = TRUE
    /\ rx.state = "COMPLETE"

\* C34: modbus_ascii_build_frame of an ADU with at most 252 data bytes stores
\* the LRC inside binary_buffer, and into a buffer of at least 513 characters
\* it returns OK with a frame of 2 * (data_length + 3) + 3 <= 513 characters
Claim_C34 ==
    (call.op = "ascii_build_frame" /\ Len(call.input.pdu.data) <= 252) =>
        /\ call.lrc_index < MODBUS_ASCII_MAX_BINARY_LEN
        /\ call.size >= 513 =>
                /\ call.result = "OK"
                /\ Len(call.output) = 2 * (Len(call.input.pdu.data) + 3) + 3
                /\ Len(call.output) <= 513

(***************************************************************************)
(* Application properties, on the call of SpecApp                          *)
(***************************************************************************)
\* C33: modbus_handle_connection writes no response to the connection for a
\* request whose MBAP unit id is 0
Claim_C33 ==
    (/\ call.op = "handle_connection"
     /\ Len(call.input) >= MODBUS_TCP_MIN_FRAME_SIZE
     /\ call.input[7] = 0) =>
        ~call.written

====
